---- MODULE Spec2Model ----
(***************************************************************************)
(* A model of the two algorithmic cores of the RAG knowledge service:      *)
(*   - the keyword scorer semantic_search (api/knowledge_service.py), and   *)
(*   - the chunking engine of SmartMaterialsIngestion                       *)
(*     (src/smart_ingestion.py) fed by DocumentProcessor.                   *)
(* Python strings are TLA+ strings; a character is a string of length 1.   *)
(***************************************************************************)
EXTENDS Integers, Sequences, FiniteSets, TLC

VARIABLES
    \* one call of semantic_search: its arguments, the local scored_chunks[:top_k]
    \* (position in chunks and raw score) and the list it returns
    search_pc, search_query, search_chunks, search_top_k, scored_chunks, results,
    \* what each step of the scoring loop added to the score of each chunk
    score_parts

searchVars == << search_pc, search_query, search_chunks, search_top_k, scored_chunks,
                results, score_parts >>

VARIABLES
    \* process_materials_directory: the documents of the run, the position of
    \* its loop, and the two lists the loop fills
    ingest_pc, raw_documents, doc_index, all_chunks, failed_documents,
    \* the documents whose prompt was sent to the text-generation provider
    provider_calls,
    \* what each iteration of the loop did, in order
    chunking_log,
    \* steps 3 and 4 of process_materials_directory: the report of the quality
    \* audit and what was written for each output format
    quality_metrics, export_results

ingestVars == << ingest_pc, raw_documents, doc_index, all_chunks, failed_documents,
                 provider_calls, chunking_log, quality_metrics, export_results >>

VARIABLES
    \* api/knowledge_service.py: the module globals, and the answer to the
    \* last request to /api/search
    _knowledge_loaded, _knowledge_base, search_response,
    \* how the last call of load_chunks_once ended, and the answers to the
    \* last requests to /api/ask and /api/health
    load_result, ask_response, health_response

serviceVars == << _knowledge_loaded, _knowledge_base, search_response,
                  load_result, ask_response, health_response >>

(***************************************************************************)
(* Bounds of the model.                                                    *)
(***************************************************************************)
\* longest chunk list handed to semantic_search
MaxChunks == 3
\* largest top_k a search request asks for
MaxTopK == 3
\* most documents in one ingestion run
MaxDocs == 2
\* longest chunk list drawn from the pool of the scoring model
MaxScoringChunks == 2
\* most chunk entries in one provider answer of the audited run
MaxAuditChunks == 3

(***************************************************************************)
(* Python's str operations, computed on characters.                        *)
(***************************************************************************)
Char(s, i) == SubSeq(s, i, i)

\* the characters str.split() treats as separators
IsSpace(c) == c \in {" ", "\n", "\t"}

\* the lower-case letter of each upper-case letter
LowerOf ==
    [ c \in { "A", "B", "C", "D", "E", "F", "G", "H", "I", "J", "K", "L", "M",
              "N", "O", "P", "Q", "R", "S", "T", "U", "V", "W", "X", "Y", "Z" } |->
        CASE c = "A" -> "a" [] c = "B" -> "b" [] c = "C" -> "c" [] c = "D" -> "d"
          [] c = "E" -> "e" [] c = "F" -> "f" [] c = "G" -> "g" [] c = "H" -> "h"
          [] c = "I" -> "i" [] c = "J" -> "j" [] c = "K" -> "k" [] c = "L" -> "l"
          [] c = "M" -> "m" [] c = "N" -> "n" [] c = "O" -> "o" [] c = "P" -> "p"
          [] c = "Q" -> "q" [] c = "R" -> "r" [] c = "S" -> "s" [] c = "T" -> "t"
          [] c = "U" -> "u" [] c = "V" -> "v" [] c = "W" -> "w" [] c = "X" -> "x"
          [] c = "Y" -> "y" [] c = "Z" -> "z" ]

LowerChar(c) == IF c \in DOMAIN LowerOf THEN LowerOf[c] ELSE c

RECURSIVE LowerRange(_, _, _)
LowerRange(s, lo, hi) ==
    IF lo > hi THEN ""
    ELSE IF lo = hi THEN LowerChar(Char(s, lo))
    ELSE LET mid == (lo + hi) \div 2
         IN  LowerRange(s, lo, mid) \o LowerRange(s, mid + 1, hi)

\* s.lower()
Lower(s) == LowerRange(s, 1, Len(s))

\* a in b, for strings: a occurs in b as a substring
StrIn(a, b) ==
    \E i \in 0..(Len(b) - Len(a)) : SubSeq(b, i + 1, i + Len(a)) = a

\* s.count(w) from position i on: occurrences that do not overlap, left to right
RECURSIVE CountFrom(_, _, _)
CountFrom(s, w, i) ==
    IF i + Len(w) - 1 > Len(s) THEN 0
    ELSE IF SubSeq(s, i, i + Len(w) - 1) = w
         THEN 1 + CountFrom(s, w, i + Len(w))
         ELSE CountFrom(s, w, i + 1)

\* s.count(w), w not empty
StrCount(s, w) == CountFrom(s, w, 1)

\* s.split(): the maximal runs of non-whitespace characters, in order
Split(s) ==
    LET IsStart(i) == /\ ~IsSpace(Char(s, i))
                      /\ (i = 1 \/ IsSpace(Char(s, i - 1)))
        IsEnd(i)   == /\ ~IsSpace(Char(s, i))
                      /\ (i = Len(s) \/ IsSpace(Char(s, i + 1)))
        positions  == [ i \in 1..Len(s) |-> i ]
        starts     == SelectSeq(positions, IsStart)
        ends       == SelectSeq(positions, IsEnd)
    IN  [ k \in 1..Len(starts) |-> SubSeq(s, starts[k], ends[k]) ]

\* sep.join(words[lo..hi])
RECURSIVE JoinRange(_, _, _, _)
JoinRange(sep, words, lo, hi) ==
    IF lo > hi THEN ""
    ELSE IF lo = hi THEN words[lo]
    ELSE LET mid == (lo + hi) \div 2
         IN  JoinRange(sep, words, lo, mid) \o sep \o JoinRange(sep, words, mid + 1, hi)

\* sep.join(words)
Join(sep, words) == JoinRange(sep, words, 1, Len(words))

\* s.startswith(p)
StartsWith(s, p) == Len(p) <= Len(s) /\ SubSeq(s, 1, Len(p)) = p

\* d.get(k, default) for a dict d
Get(d, k, default) == IF k \in DOMAIN d THEN d[k] ELSE default

\* sum of a sequence of integers
RECURSIVE SumSeq(_)
SumSeq(xs) == IF xs = << >> THEN 0 ELSE Head(xs) + SumSeq(Tail(xs))

Min(a, b) == IF a <= b THEN a ELSE b
Max(a, b) == IF a >= b THEN a ELSE b

\* seq[:k], Python's slice by a possibly negative k
SliceTo(seq, k) ==
    IF k >= 0 THEN SubSeq(seq, 1, Min(k, Len(seq)))
    ELSE SubSeq(seq, 1, Max(Len(seq) + k, 0))

(***************************************************************************)
(* semantic_search: the keyword scorer of api/knowledge_service.py.        *)
(***************************************************************************)
\* the table semantic_categories
semantic_categories ==
    << [category |-> "feedback",
        keywords |-> <<"sbi", "situation", "behavior", "impact", "radical", "candor">>],
       [category |-> "coaching",
        keywords |-> <<"development", "1:1", "growth", "mentoring", "guidance">>],
       [category |-> "delegation",
        keywords |-> <<"authority", "responsibility", "accountability", "decision">>],
       [category |-> "leadership",
        keywords |-> <<"management", "leading", "influence", "direction">>],
       [category |-> "communication",
        keywords |-> <<"conversation", "discussion", "talking", "speaking">>] >>

ExactPhraseNoBonus(query_lower, content) == 0
\* step 1: the whole lower-cased query occurs in the content
ExactPhraseScore(query_lower, content) ==
    IF StrIn(query_lower, content) THEN 100 ELSE 0

FieldScoreAnyLength(query_words, source_file, framework) ==
    SumSeq([i \in 1..Len(query_words) |->
        (IF StrIn(query_words[i], source_file) THEN 50 ELSE 0)
        + (IF StrIn(query_words[i], framework) THEN 30 ELSE 0)])
\* step 2: query words of more than 2 characters in source_file and framework
FieldScore(query_words, source_file, framework) ==
    SumSeq([i \in 1..Len(query_words) |->
        IF Len(query_words[i]) > 2
        THEN (IF StrIn(query_words[i], source_file) THEN 50 ELSE 0)
             + (IF StrIn(query_words[i], framework) THEN 30 ELSE 0)
        ELSE 0])

\* step 3: occurrences of each query word of more than 2 characters
FrequencyScore(query_words, content) ==
    SumSeq([i \in 1..Len(query_words) |->
        IF Len(query_words[i]) > 2
        THEN StrCount(content, query_words[i]) * Len(query_words[i]) * 5
        ELSE 0])

CategoryScoreOncePerCategory(query_lower, content) ==
    SumSeq([c \in 1..Len(semantic_categories) |->
        IF StrIn(semantic_categories[c].category, query_lower)
           /\ \E k \in 1..Len(semantic_categories[c].keywords) :
                 StrIn(semantic_categories[c].keywords[k], content)
        THEN 20 ELSE 0])
\* step 4: 20 for each keyword of a category named in the query
CategoryScore(query_lower, content) ==
    SumSeq([c \in 1..Len(semantic_categories) |->
        IF StrIn(semantic_categories[c].category, query_lower)
        THEN SumSeq([k \in 1..Len(semantic_categories[c].keywords) |->
                 IF StrIn(semantic_categories[c].keywords[k], content) THEN 20 ELSE 0])
        ELSE 0])

\* step 5, first bonus: the query names feedback and the content holds the
\* complete SBI framework
CompletionBonus(query_lower, content) ==
    IF StrIn("feedback", query_lower)
       /\ \A term \in {"situation", "behavior", "impact"} : StrIn(term, content)
    THEN 100 ELSE 0

\* step 5, second bonus: the query names coaching
CoachingBonus(query_lower, content) ==
    IF StrIn("coaching", query_lower)
       /\ \E term \in {"development", "growth", "conversation"} : StrIn(term, content)
    THEN 50 ELSE 0

\* step 5: the framework-specific bonuses
FrameworkScore(query_lower, content) ==
    CompletionBonus(query_lower, content) + CoachingBonus(query_lower, content)

\* what the five steps of the loop body of semantic_search add for one chunk
StepScores(query, chunk) ==
    LET query_lower == Lower(query)
        query_words == Split(query_lower)
        content     == Lower(chunk.content)
        source_file == Lower(Get(chunk.metadata, "source_file", ""))
        framework   == Lower(Get(chunk.metadata, "framework", ""))
    IN  [ exact      |-> ExactPhraseScore(query_lower, content),
          field      |-> FieldScore(query_words, source_file, framework),
          frequency  |-> FrequencyScore(query_words, content),
          category   |-> CategoryScore(query_lower, content),
          completion |-> CompletionBonus(query_lower, content),
          coaching   |-> CoachingBonus(query_lower, content) ]

\* the sum of the additions
TotalOf(parts) ==
    parts.exact + parts.field + parts.frequency + parts.category
       + parts.completion + parts.coaching

ChunkScoreBoostsOnly(query, chunk) ==
    LET parts == StepScores(query, chunk)
    IN  parts.category + parts.completion + parts.coaching
\* the score one chunk gets in the loop of semantic_search
ChunkScore(query, chunk) == TotalOf(StepScores(query, chunk))

PositiveScoreNoFilter(score) == TRUE
\* if score > 0: the chunk enters scored_chunks
PositiveScore(score) == score > 0

\* scored_chunks before the sort: (position in chunks, score), in corpus order
RECURSIVE ScoreChunks(_, _, _)
ScoreChunks(query, chunks, i) ==
    IF i > Len(chunks) THEN << >>
    ELSE LET score == ChunkScore(query, chunks[i])
         IN  (IF PositiveScore(score) THEN << [pos |-> i, score |-> score] >> ELSE << >>)
             \o ScoreChunks(query, chunks, i + 1)

InsertsBeforeUnstable(x, y) == x.score >= y.score
\* x, later in the list than y, is placed before y by the descending sort
InsertsBefore(x, y) == x.score > y.score

\* x put into a list that is already sorted
RECURSIVE InsertSorted(_, _)
InsertSorted(sorted, x) ==
    IF sorted = << >> THEN << x >>
    ELSE IF InsertsBefore(x, Head(sorted)) THEN << x >> \o sorted
    ELSE << Head(sorted) >> \o InsertSorted(Tail(sorted), x)

\* list.sort(key=score, reverse=True): a stable sort by descending score
RECURSIVE SortByScore(_, _)
SortByScore(items, n) ==
    IF n = 0 THEN << >> ELSE InsertSorted(SortByScore(items, n - 1), items[n])

\* scored_chunks[:top_k]
TopSlice(sorted, top_k) == SliceTo(sorted, top_k)

\* scored_chunks[:top_k] after the sort
RankedChunks(query, chunks, top_k) ==
    LET scored == ScoreChunks(query, chunks, 1)
    IN  TopSlice(SortByScore(scored, Len(scored)), top_k)

\* the SearchResult built from one ranked chunk; score is float(score) / 100.0,
\* kept as the exact fraction score_num / score_den
SearchResult(chunk, score) ==
    [ id        |-> chunk.id,
      content   |-> chunk.content,
      metadata  |-> [ source_file |-> Get(chunk.metadata, "source_file", "Unknown"),
                      framework   |-> Get(chunk.metadata, "framework", "Unknown"),
                      category    |-> Get(chunk.metadata, "category", "General"),
                      section     |-> Get(chunk.metadata, "section", ""),
                      word_count  |-> Get(chunk, "word_count", 0) ],
      score_num |-> score,
      score_den |-> 100 ]

\* the results list built from scored_chunks[:top_k]
ResultsOf(ranked, chunks) ==
    [i \in 1..Len(ranked) |-> SearchResult(chunks[ranked[i].pos], ranked[i].score)]

\* semantic_search(query, chunks, top_k)
semantic_search(query, chunks, top_k) ==
    ResultsOf(RankedChunks(query, chunks, top_k), chunks)

(***************************************************************************)
(* search_by_keywords_improved of api/index.py: the copy of the scorer     *)
(* that runs over the chunks of the local chunks file.                     *)
(***************************************************************************)
semantic_matches ==
    << [category |-> "feedback",
        keywords |-> <<"giving", "receiving", "sbi", "situation", "behavior", "impact",
                       "radical", "candor">>],
       [category |-> "coaching",
        keywords |-> <<"development", "1:1", "growth", "mentoring", "guidance">>],
       [category |-> "delegation",
        keywords |-> <<"authority", "responsibility", "accountability", "decision">>],
       [category |-> "leadership",
        keywords |-> <<"management", "leading", "influence", "direction">>],
       [category |-> "communication",
        keywords |-> <<"conversation", "discussion", "talking", "speaking">>] >>

\* step 4 of the copy: 20 for each keyword of a category named in the query
SemanticMatchScore(query_lower, content) ==
    SumSeq([c \in 1..Len(semantic_matches) |->
        IF StrIn(semantic_matches[c].category, query_lower)
        THEN SumSeq([k \in 1..Len(semantic_matches[c].keywords) |->
                 IF StrIn(semantic_matches[c].keywords[k], content) THEN 20 ELSE 0])
        ELSE 0])

\* step 5 of the copy, first bonus: the query names feedback and the content
\* holds any of the three SBI terms
KeywordsCompletionBonus(query_lower, content) ==
    IF StrIn("feedback", query_lower)
       /\ \E term \in {"situation", "behavior", "impact"} : StrIn(term, content)
    THEN 50 ELSE 0

\* what the five steps of the loop body of the copy add for one chunk
KeywordsStepScores(query, chunk) ==
    LET query_lower == Lower(query)
        query_words == Split(query_lower)
        content     == Lower(chunk.content)
        source_file == Lower(Get(chunk.metadata, "source_file", ""))
        framework   == Lower(Get(chunk.metadata, "framework", ""))
    IN  [ exact      |-> ExactPhraseScore(query_lower, content),
          field      |-> FieldScore(query_words, source_file, framework),
          frequency  |-> FrequencyScore(query_words, content),
          category   |-> SemanticMatchScore(query_lower, content),
          completion |-> KeywordsCompletionBonus(query_lower, content),
          coaching   |-> CoachingBonus(query_lower, content) ]

\* scored_chunks of the copy before the sort
RECURSIVE KeywordsScoreChunks(_, _, _)
KeywordsScoreChunks(query, chunks, i) ==
    IF i > Len(chunks) THEN << >>
    ELSE LET score == TotalOf(KeywordsStepScores(query, chunks[i]))
         IN  (IF score > 0 THEN << [pos |-> i, score |-> score] >> ELSE << >>)
             \o KeywordsScoreChunks(query, chunks, i + 1)

\* scored_chunks[:top_k] of the copy after the sort
KeywordsRankedChunks(query, chunks, top_k) ==
    LET scored == KeywordsScoreChunks(query, chunks, 1)
    IN  SliceTo(SortByScore(scored, Len(scored)), top_k)

\* search_by_keywords_improved(query, top_k) over the chunks of the file
search_by_keywords_improved(query, chunks, top_k) ==
    ResultsOf(KeywordsRankedChunks(query, chunks, top_k), chunks)

(***************************************************************************)
(* The chunking engine: SmartMaterialsIngestion in src/smart_ingestion.py. *)
(* A call that may raise returns [raised, chunks].                         *)
(***************************************************************************)
Returned(chunks) == [ raised |-> FALSE, chunks |-> chunks ]
RaisedError == [ raised |-> TRUE, chunks |-> << >> ]

\* Path(file_path).name: the text after the last "/"
RECURSIVE BaseNameFrom(_, _)
BaseNameFrom(path, i) ==
    IF i = 0 THEN path
    ELSE IF Char(path, i) = "/" THEN SubSeq(path, i + 1, Len(path))
    ELSE BaseNameFrom(path, i - 1)

BaseName(path) == BaseNameFrom(path, Len(path))

\* DocumentProcessor.process_file on a file whose extraction gives file.text,
\* or fails (the fields the chunking engine reads)
process_file(file) ==
    IF file.extracted
    THEN [ content           |-> file.text,
           content_is_str    |-> TRUE,
           filename          |-> BaseName(file.file_path),
           file_path         |-> file.file_path,
           word_count        |-> Len(Split(file.text)),
           char_count        |-> Len(file.text),
           processing_status |-> "success" ]
    ELSE [ content           |-> "",
           content_is_str    |-> TRUE,
           filename          |-> BaseName(file.file_path),
           file_path         |-> file.file_path,
           processing_status |-> "error",
           error_message     |-> "extraction failed" ]

\* _fallback_chunking: the window size
chunk_size == 400

\* the context header _fallback_chunking puts before the words of part n
FallbackHeader(document, n) ==
    "CONTEXT: " \o document.filename \o " - Part " \o ToString(n) \o "\n\n"

FallbackWindowOverlap(words, i) == SubSeq(words, Max(i, 1), Min(i + chunk_size, Len(words)))
\* words[i:i + chunk_size]
FallbackWindow(words, i) == SubSeq(words, i + 1, Min(i + chunk_size, Len(words)))

\* the chunk _fallback_chunking builds for the window that starts at word i
FallbackChunk(document, words, i) ==
    LET chunk_words   == FallbackWindow(words, i)
        chunk_content == Join(" ", chunk_words)
    IN  [ id         |-> document.filename \o "_fallback_" \o ToString(i \div chunk_size),
          content    |-> FallbackHeader(document, i \div chunk_size + 1) \o chunk_content,
          metadata   |-> [ source_file |-> document.filename,
                           source_path |-> document.file_path,
                           framework   |-> "Unknown",
                           category    |-> "General",
                           section     |-> "Part " \o ToString(i \div chunk_size + 1),
                           keywords    |-> << >>,
                           language    |-> "unknown",
                           chunk_type  |-> "fallback",
                           chunk_index |-> i \div chunk_size ],
          word_count |-> Len(chunk_words),
          char_count |-> Len(chunk_content) ]

\* _fallback_chunking(document); content.split() raises when content is no str
_fallback_chunking(document) ==
    IF ~document.content_is_str THEN RaisedError
    ELSE LET words == Split(document.content)
             n     == (Len(words) + chunk_size - 1) \div chunk_size
         IN  Returned([k \in 1..n |-> FallbackChunk(document, words, (k - 1) * chunk_size)])

(***************************************************************************)
(* The provider's response is a sequence of segments: free text, or the    *)
(* text of one well-formed JSON object, given by the value it parses to.   *)
(* Free text is prose: apart from "{", blanks and "}" it is no JSON.       *)
(***************************************************************************)
Text(t) == [ kind |-> "text", text |-> t ]
Json(v) == [ kind |-> "json", value |-> v ]

HasOpen(seg)  == seg.kind = "json" \/ StrIn("{", seg.text)
HasClose(seg) == seg.kind = "json" \/ StrIn("}", seg.text)

\* position of the first "{" and of the last "}" in a text that holds one
FirstOpen(t) == CHOOSE i \in 1..Len(t) :
                   Char(t, i) = "{" /\ \A j \in 1..(i - 1) : Char(t, j) # "{"
LastClose(t) == CHOOSE i \in 1..Len(t) :
                   Char(t, i) = "}" /\ \A j \in (i + 1)..Len(t) : Char(t, j) # "}"

\* re.search(r'\{.*\}', ai_response, re.DOTALL): from the first "{" to the
\* last "}" after it; found = FALSE when there is no such pair
JsonMatch(ai_response) ==
    LET opens  == { i \in 1..Len(ai_response) : HasOpen(ai_response[i]) }
        closes == { i \in 1..Len(ai_response) : HasClose(ai_response[i]) }
        NoMatch == [ found |-> FALSE, group |-> << >> ]
    IN  IF opens = {} \/ closes = {} THEN NoMatch
        ELSE LET a == CHOOSE i \in opens : \A j \in opens : i <= j
                 b == CHOOSE i \in closes : \A j \in closes : i >= j
                 segA == ai_response[a]
                 segB == ai_response[b]
             IN  IF a > b THEN NoMatch
                 ELSE IF a = b
                 THEN IF segA.kind = "json"
                      THEN [ found |-> TRUE, group |-> << segA >> ]
                      ELSE IF FirstOpen(segA.text) < LastClose(segA.text)
                           THEN [ found |-> TRUE,
                                  group |-> << Text(SubSeq(segA.text, FirstOpen(segA.text),
                                                           LastClose(segA.text))) >> ]
                           ELSE NoMatch
                 ELSE [ found |-> TRUE,
                        group |->
                          << IF segA.kind = "json" THEN segA
                             ELSE Text(SubSeq(segA.text, FirstOpen(segA.text), Len(segA.text))) >>
                          \o SubSeq(ai_response, a + 1, b - 1)
                          \o << IF segB.kind = "json" THEN segB
                                ELSE Text(SubSeq(segB.text, 1, LastClose(segB.text))) >> ]

\* the matched text is "{", blanks, "}": the empty JSON object
IsEmptyObjectText(t) ==
    /\ Len(t) >= 2
    /\ Char(t, 1) = "{"
    /\ Char(t, Len(t)) = "}"
    /\ \A i \in 2..(Len(t) - 1) : IsSpace(Char(t, i))

\* json.loads of the matched text
JsonLoads(group) ==
    IF Len(group) = 1 /\ group[1].kind = "json"
    THEN [ raised |-> FALSE, value |-> group[1].value ]
    ELSE IF /\ \A i \in 1..Len(group) : group[i].kind = "text"
            /\ IsEmptyObjectText(Join("", [i \in 1..Len(group) |-> group[i].text]))
    THEN [ raised |-> FALSE, value |-> << >> ]
    ELSE [ raised |-> TRUE, value |-> << >> ]

\* f"{original_doc['filename']}_{chunk_data.get('chunk_id', i)}"
AIChunkId(original_doc, chunk_data, i) ==
    original_doc.filename \o "_" \o Get(chunk_data, "chunk_id", ToString(i))

AIChunkKeepsMetadata(original_doc, chunk_data, i) ==
    [ id         |-> AIChunkId(original_doc, chunk_data, i),
      content    |-> chunk_data.content,
      metadata   |-> chunk_data.metadata
                     @@ [ source_file |-> original_doc.filename,
                          source_path |-> original_doc.file_path,
                          chunk_index |-> i ],
      word_count |-> Len(Split(chunk_data.content)),
      char_count |-> Len(chunk_data.content) ]
\* the chunk _parse_chunking_response builds from entry i (0-based) of 'chunks'
AIChunk(original_doc, chunk_data, i) ==
    [ id         |-> AIChunkId(original_doc, chunk_data, i),
      content    |-> chunk_data.content,
      metadata   |-> [ source_file |-> original_doc.filename,
                       source_path |-> original_doc.file_path,
                       chunk_index |-> i ] @@ chunk_data.metadata,
      word_count |-> Len(Split(chunk_data.content)),
      char_count |-> Len(chunk_data.content) ]

\* the try block of _parse_chunking_response: the chunks, or the exception
ParseResponse(ai_response, original_doc) ==
    LET json_match == JsonMatch(ai_response)
    IN  IF ~json_match.found THEN RaisedError
        ELSE LET loaded == JsonLoads(json_match.group)
             IN  IF loaded.raised THEN RaisedError
                 ELSE LET entries == Get(loaded.value, "chunks", << >>)
                      IN  IF \E i \in 1..Len(entries) :
                                 ~({"content", "metadata"} \subseteq DOMAIN entries[i])
                          THEN RaisedError
                          ELSE Returned([i \in 1..Len(entries) |->
                                            AIChunk(original_doc, entries[i], i - 1)])

ParseKeepsBuiltChunks(ai_response, original_doc) ==
    LET parsed     == ParseResponse(ai_response, original_doc)
        json_match == JsonMatch(ai_response)
        loaded     == JsonLoads(json_match.group)
        entries    == IF json_match.found /\ ~loaded.raised
                      THEN Get(loaded.value, "chunks", << >>) ELSE << >>
        built      == { i \in 1..Len(entries) :
                          \A j \in 1..i : {"content", "metadata"} \subseteq DOMAIN entries[j] }
    IN  IF ~parsed.raised THEN parsed
        ELSE IF built # {}
        THEN Returned([i \in built |-> AIChunk(original_doc, entries[i], i - 1)])
        ELSE _fallback_chunking(original_doc)
\* _parse_chunking_response: any exception of the try block leads to the fallback
_parse_chunking_response(ai_response, original_doc) ==
    LET parsed == ParseResponse(ai_response, original_doc)
    IN  IF parsed.raised THEN _fallback_chunking(original_doc) ELSE parsed

SkipsShortBelowOrAt(document) == document.word_count <= 100
\* if document['word_count'] < 100: the document is skipped
SkipsShort(document) == document.word_count < 100

OnAIFailureReraise(document) == RaisedError
\* the except clause of _intelligent_chunking
OnAIFailure(document) == _fallback_chunking(document)

\* _intelligent_chunking(document) when the provider answers outcome
_intelligent_chunking(document, outcome) ==
    IF SkipsShort(document) THEN Returned(<< >>)
    ELSE IF outcome.raises THEN OnAIFailure(document)
    ELSE LET chunks_data == _parse_chunking_response(outcome.response, document)
         IN  IF chunks_data.raised THEN OnAIFailure(document) ELSE chunks_data

\* if doc['processing_status'] != 'success'
NotSuccessful(doc) == doc.processing_status # "success"

LoopIterationDropsFailed(doc, outcome) ==
    IF NotSuccessful(doc)
    THEN [ failed |-> << >>, chunks |-> << >>, called |-> FALSE, raised |-> FALSE ]
    ELSE LET r == _intelligent_chunking(doc, outcome)
         IN  [ failed |-> << >>, chunks |-> r.chunks,
               called |-> ~SkipsShort(doc), raised |-> r.raised ]
\* one iteration of the loop of process_materials_directory: what it appends
\* to failed_documents and to all_chunks, and whether the provider was called
LoopIteration(doc, outcome) ==
    IF NotSuccessful(doc)
    THEN [ failed |-> << doc >>, chunks |-> << >>, called |-> FALSE, raised |-> FALSE ]
    ELSE LET r == _intelligent_chunking(doc, outcome)
         IN  IF r.raised
             THEN [ failed |-> << [ chunking_error |-> "error" ] @@ doc >>,
                    chunks |-> << >>, called |-> ~SkipsShort(doc), raised |-> TRUE ]
             ELSE [ failed |-> << >>, chunks |-> r.chunks,
                    called |-> ~SkipsShort(doc), raised |-> FALSE ]

(***************************************************************************)
(* The inputs of the ingestion model.                                      *)
(***************************************************************************)
\* the words w1 .. wn
NumberedWords(n) == [i \in 1..n |-> "w" \o ToString(i)]

\* the files of the materials directory: two of the same name in different
\* sub-directories, one below the 100-word threshold, one that cannot be read
Files ==
    { [ file_path |-> "docs/guide.txt", extracted |-> TRUE,
        text |-> Join(" ", NumberedWords(801)) ],
      [ file_path |-> "archive/guide.txt", extracted |-> TRUE,
        text |-> Join("\n\n", NumberedWords(100)) ],
      [ file_path |-> "docs/note.md", extracted |-> TRUE,
        text |-> Join(" ", NumberedWords(99)) ],
      [ file_path |-> "docs/scan.pdf", extracted |-> FALSE, text |-> "" ] }

\* a RawDocument whose content is not a string: no DocumentProcessor output,
\* the input the except clauses around _fallback_chunking are written for
ForeignDocument ==
    [ content           |-> "",
      content_is_str    |-> FALSE,
      filename          |-> "feed.bin",
      file_path         |-> "ext/feed.bin",
      word_count        |-> 120,
      char_count        |-> 0,
      processing_status |-> "success" ]

RawDocuments == { process_file(f) : f \in Files } \cup { ForeignDocument }

\* the document lists of at most n documents, each file at most once
RECURSIVE DocumentLists(_)
DocumentLists(n) ==
    IF n = 0 THEN { << >> }
    ELSE DocumentLists(n - 1)
         \cup { Append(l, d) :
                   l \in { m \in DocumentLists(n - 1) : Len(m) = n - 1 },
                   d \in RawDocuments }

\* no file of the directory is listed twice
DistinctPaths(docs) ==
    \A i, j \in 1..Len(docs) : i # j => docs[i].file_path # docs[j].file_path

ChunkA ==
    [ chunk_id |-> "sbi_1",
      content  |-> "CONTEXT: SBI Framework - Overview\n\nDescribe the situation first",
      metadata |-> [ framework |-> "SBI Framework", category |-> "Communication",
                     section |-> "Overview", language |-> "english",
                     chunk_type |-> "framework_explanation" ] ]
ChunkB ==
    [ chunk_id |-> "sbi_2",
      content  |-> "CONTEXT: SBI Framework - Steps\n\nThen the behavior {observed}  and its impact",
      metadata |-> [ framework |-> "SBI Framework", category |-> "Communication",
                     section |-> "Steps", language |-> "english",
                     chunk_type |-> "steps", chunk_index |-> 7 ] ]
\* an entry without chunk_id
ChunkNoId == [ content |-> ChunkA.content, metadata |-> ChunkA.metadata ]
\* an entry without content
ChunkNoContent == [ chunk_id |-> "sbi_3", metadata |-> ChunkA.metadata ]

\* what the text-generation provider may do with one prompt
ProviderOutcomes ==
    { [ raises |-> TRUE, response |-> << >> ],
      \* the JSON object alone, the same chunk_id twice
      [ raises |-> FALSE, response |-> << Json([ chunks |-> << ChunkA, ChunkA >> ]) >> ],
      \* the JSON object between two pieces of commentary
      [ raises |-> FALSE,
        response |-> << Text("Here is the chunking you asked for:\n"),
                        Json([ chunks |-> << ChunkB, ChunkNoId >> ]),
                        Text("\nLet me know if you need more.") >> ],
      \* commentary that holds braces itself
      [ raises |-> FALSE,
        response |-> << Text("I use {framework} as a placeholder. "),
                        Json([ chunks |-> << ChunkA, ChunkB >> ]) >> ],
      \* no JSON at all
      [ raises |-> FALSE, response |-> << Text("I cannot chunk this document.") >> ],
      \* the second entry lacks 'content'
      [ raises |-> FALSE, response |-> << Json([ chunks |-> << ChunkA, ChunkNoContent >> ]) >> ],
      \* an object without 'chunks'
      [ raises |-> FALSE,
        response |-> << Json([ document_analysis |-> [ category |-> "Leadership" ] ]) >> ] }

\* the outcome recorded for a document that was not sent to the provider
NoCall == [ raises |-> FALSE, response |-> << >> ]

\* the outcomes the loop can meet for a document
\* the documents for which the model lets the provider answer: those the
\* loop has to send
ProviderAsked(doc) == doc.processing_status = "success" /\ doc.word_count >= 100

\* quality_metrics before step 3 has run
VARIABLES
    \* the calls of semantic_search made so far, each with its arguments, the
    \* chunk list as the call left it, and what it returned
    call_log

repeatVars == << call_log >>

VARIABLES
    \* one call of create_anthropic_embeddings: its position, its argument,
    \* the local list numbers, the branch that filled it and the value returned
    embed_pc, embed_text, numbers, embed_branch, embedding

embedVars == << embed_pc, embed_text, numbers, embed_branch, embedding >>

VARIABLES
    \* api/index.py: what the last request met outside the process (chunks
    \* file, Pinecone, providers), the outside calls it made in order, what
    \* its keyword stage returned, and the answers to the last requests to
    \* /api/search and /api/ask
    hybrid_env, hybrid_calls, keyword_results, hybrid_response, index_ask_response

hybridVars == << hybrid_env, hybrid_calls, keyword_results, hybrid_response,
                 index_ask_response >>

\* the variables of the other components of the repository
VARIABLES
    \* api/pinecone_rag.py: the module global _knowledge_loaded, the ids of the
    \* vectors the index holds, the number of chunks of the chunks file, what
    \* the last request met outside the process and the answer it got
    rag_knowledge_loaded, rag_vectors, rag_chunks, rag_env, rag_response

ragVars == << rag_knowledge_loaded, rag_vectors, rag_chunks, rag_env, rag_response >>

VARIABLES
    \* rebuild_embeddings.py, one run of rebuild_knowledge_base: its position,
    \* the number of chunks of the file and the positions at which the
    \* embedding and the upsert raise, the loop index i, the locals
    \* vectors_to_upload and total_processed, the ids whose embedding was
    \* created, the ids the index holds, and the value returned
    rebuild_pc, rebuild_chunks, rebuild_faults, rebuild_i, vectors_to_upload,
    total_processed, embedded, upserted, rebuild_result

rebuildVars == << rebuild_pc, rebuild_chunks, rebuild_faults, rebuild_i, vectors_to_upload,
                  total_processed, embedded, upserted, rebuild_result >>

uploadVars == << ragVars, rebuildVars >>

restVars == << repeatVars, embedVars, hybridVars, uploadVars >>

NoMetrics == [ pending |-> TRUE ]

\* no search is under way
SearchIdle ==
    /\ search_pc = "idle"
    /\ search_query = ""
    /\ search_top_k = 5
    /\ search_chunks = << >>
    /\ scored_chunks = << >>
    /\ results = << >>
    /\ score_parts = << >>

\* no ingestion run is under way
IngestIdle ==
    /\ ingest_pc = "idle"
    /\ raw_documents = << >>
    /\ doc_index = 1
    /\ all_chunks = << >>
    /\ failed_documents = << >>
    /\ provider_calls = << >>
    /\ chunking_log = << >>
    /\ quality_metrics = NoMetrics
    /\ export_results = << >>

\* the service has just been started: nothing loaded, no request answered
NoResponse == [ status |-> 0 ]

\* JSON null as the value of 'chunks': a list that holds no chunk but a mark
None == << [ none |-> TRUE ] >>

ServiceIdle ==
    /\ _knowledge_loaded = FALSE
    /\ _knowledge_base = << >>
    /\ search_response = NoResponse
    /\ load_result = "not_called"
    /\ ask_response = NoResponse
    /\ health_response = NoResponse

\* no call of semantic_search has been recorded
RepeatIdle == call_log = << >>

\* no call of create_anthropic_embeddings is under way
EmbedIdle ==
    /\ embed_pc = "idle"
    /\ embed_text = ""
    /\ numbers = << >>
    /\ embed_branch = "none"
    /\ embedding = << >>

\* api/index.py has answered no request
HybridIdle ==
    /\ hybrid_env = << >>
    /\ hybrid_calls = << >>
    /\ keyword_results = << >>
    /\ hybrid_response = NoResponse
    /\ index_ask_response = NoResponse

\* api/pinecone_rag.py has served no request and its index is empty
RagIdle ==
    /\ rag_knowledge_loaded = FALSE
    /\ rag_vectors = {}
    /\ rag_chunks = 0
    /\ rag_env = << >>
    /\ rag_response = NoResponse

\* rebuild_knowledge_base has not been called
RebuildIdle ==
    /\ rebuild_pc = "idle"
    /\ rebuild_chunks = 0
    /\ rebuild_faults = << >>
    /\ rebuild_i = 0
    /\ vectors_to_upload = << >>
    /\ total_processed = 0
    /\ embedded = {}
    /\ upserted = {}
    /\ rebuild_result = "not_called"

\* the other components have not run
RestIdle ==
    /\ RepeatIdle
    /\ EmbedIdle
    /\ HybridIdle
    /\ RagIdle
    /\ RebuildIdle

IngestInit ==
    /\ SearchIdle
    /\ ServiceIdle
    /\ RestIdle
    /\ ingest_pc = "chunking"
    /\ raw_documents \in { l \in DocumentLists(MaxDocs) : DistinctPaths(l) }
    /\ doc_index = 1
    /\ all_chunks = << >>
    /\ failed_documents = << >>
    /\ provider_calls = << >>
    /\ chunking_log = << >>
    /\ quality_metrics = NoMetrics
    /\ export_results = << >>

\* one iteration of the loop of process_materials_directory
ChunkDocument(outcome) ==
    /\ ingest_pc = "chunking"
    /\ doc_index <= Len(raw_documents)
    /\ (outcome = NoCall) <=> ~ProviderAsked(raw_documents[doc_index])
    /\ \E it \in { LoopIteration(raw_documents[doc_index], outcome) } :
           /\ failed_documents' = failed_documents \o it.failed
           /\ all_chunks' = all_chunks \o it.chunks
           /\ provider_calls' =
                 IF it.called THEN Append(provider_calls, doc_index) ELSE provider_calls
           /\ chunking_log' = Append(chunking_log,
                 [ doc |-> doc_index, outcome |-> outcome,
                   raised |-> it.raised, chunks |-> it.chunks ])
    /\ doc_index' = doc_index + 1
    /\ UNCHANGED << ingest_pc, raw_documents, quality_metrics, export_results >>
    /\ UNCHANGED << searchVars, serviceVars, restVars >>

\* the loop is over
FinishChunking ==
    /\ ingest_pc = "chunking"
    /\ doc_index > Len(raw_documents)
    /\ ingest_pc' = "chunked"
    /\ UNCHANGED << raw_documents, doc_index, all_chunks, failed_documents,
                    provider_calls, chunking_log, quality_metrics, export_results >>
    /\ UNCHANGED << searchVars, serviceVars, restVars >>

IngestNext ==
    \/ \E outcome \in ProviderOutcomes \cup { NoCall } : ChunkDocument(outcome)
    \/ FinishChunking

(***************************************************************************)
(* Steps 3 and 4 of process_materials_directory: the quality audit and the *)
(* export, for a run whose provider answers with chunks of chosen sizes.   *)
(***************************************************************************)
\* self.chunk_size_range = (300, 500)
chunk_size_range == << 300, 500 >>

\* word_count < self.chunk_size_range[0]
ShortChunk(word_count) == word_count < chunk_size_range[1]

LongChunkAboveTarget(word_count) == word_count > chunk_size_range[2]
\* word_count > self.chunk_size_range[1] * 1.5
LongChunk(word_count) == 2 * word_count > 3 * chunk_size_range[2]

\* chunk['content'].startswith(('CONTEXT:', 'FRAMEWORK:', '==='))
HasContextHeader(content) ==
    \E marker \in { "CONTEXT:", "FRAMEWORK:", "===" } : StartsWith(content, marker)

\* f"... ({word_count} words)"
WordsSuffix(word_count) == " (" \o ToString(word_count) \o " words)"

\* the issues one iteration of the loop of _identify_quality_issues appends
ChunkIssues(chunk) ==
    (IF ShortChunk(chunk.word_count)
     THEN << "Short chunk: " \o chunk.id \o WordsSuffix(chunk.word_count) >>
     ELSE IF LongChunk(chunk.word_count)
     THEN << "Long chunk: " \o chunk.id \o WordsSuffix(chunk.word_count) >>
     ELSE << >>)
    \o (IF ~HasContextHeader(chunk.content)
        THEN << "Missing context header: " \o chunk.id >> ELSE << >>)
    \o (IF Get(chunk.metadata, "framework", "") = "Unknown"
        THEN << "Unknown framework: " \o chunk.id >> ELSE << >>)

\* _identify_quality_issues(chunks)
RECURSIVE _identify_quality_issues(_)
_identify_quality_issues(chunks) ==
    IF chunks = << >> THEN << >>
    ELSE ChunkIssues(Head(chunks)) \o _identify_quality_issues(Tail(chunks))

\* {x: values.count(x) for x in set(values)}
Distribution(values) ==
    [ x \in { values[i] : i \in 1..Len(values) } |->
         Cardinality({ i \in 1..Len(values) : values[i] = x }) ]

\* _analyze_chunk_quality(chunks); the average is kept as the fraction
\* average_num / average_den
_analyze_chunk_quality(chunks) ==
    IF chunks = << >> THEN [ error |-> "No chunks to analyze" ]
    ELSE LET word_counts == [i \in 1..Len(chunks) |-> chunks[i].word_count]
             languages   == [i \in 1..Len(chunks) |->
                                Get(chunks[i].metadata, "language", "unknown")]
             frameworks  == [i \in 1..Len(chunks) |->
                                Get(chunks[i].metadata, "framework", "Unknown")]
         IN  [ total_chunks |-> Len(chunks),
               word_count_stats |->
                  [ min |-> CHOOSE w \in { word_counts[i] : i \in 1..Len(chunks) } :
                               \A i \in 1..Len(chunks) : w <= word_counts[i],
                    max |-> CHOOSE w \in { word_counts[i] : i \in 1..Len(chunks) } :
                               \A i \in 1..Len(chunks) : w >= word_counts[i],
                    average_num  |-> SumSeq(word_counts),
                    average_den  |-> Len(word_counts),
                    target_range |-> chunk_size_range ],
               language_distribution  |-> Distribution(languages),
               framework_distribution |-> Distribution(frameworks),
               quality_flags |-> _identify_quality_issues(chunks) ]

AuditDiscardsFlagged(chunks) ==
    SelectSeq(chunks, LAMBDA c : ChunkIssues(c) = << >>)
\* the chunk list after _analyze_chunk_quality(chunks) has returned: the
\* function and _identify_quality_issues only read their argument
ChunksAfterAudit(chunks) == chunks

\* _export_to_chromadb_format(chunks, output_dir): the object written to
\* chunks_data.json and the summary it returns
_export_to_chromadb_format(chunks) ==
    [ format          |-> "chromadb",
      written         |-> [ chunks |-> chunks, total_chunks |-> Len(chunks) ],
      chunks_exported |-> Len(chunks) ]

\* the text of the markdown file written for one chunk
MarkdownFile(chunk) ==
    "# " \o Get(chunk.metadata, "framework", "Management Framework") \o "\n\n"
    \o "**Section:** " \o Get(chunk.metadata, "section", "General") \o "\n"
    \o "**Category:** " \o Get(chunk.metadata, "category", "Management") \o "\n"
    \o "**Keywords:** " \o Join(", ", Get(chunk.metadata, "keywords", << >>)) \o "\n\n"
    \o "---\n\n"
    \o chunk.content

\* _export_to_custom_gpt_format(chunks, output_dir): the files written, in order
_export_to_custom_gpt_format(chunks) ==
    [ format         |-> "custom_gpt",
      written        |-> [i \in 1..Len(chunks) |-> MarkdownFile(chunks[i])],
      files_exported |-> Len(chunks) ]

\* step 3: quality_metrics = self._analyze_chunk_quality(all_chunks)
AnalyzeQuality ==
    /\ ingest_pc = "chunked"
    /\ ingest_pc' = "analyzed"
    /\ quality_metrics' = _analyze_chunk_quality(all_chunks)
    /\ all_chunks' = ChunksAfterAudit(all_chunks)
    /\ UNCHANGED << raw_documents, doc_index, failed_documents, provider_calls,
                    chunking_log, export_results >>
    /\ UNCHANGED << searchVars, serviceVars, restVars >>

\* step 4: both output formats are written from all_chunks
Export ==
    /\ ingest_pc = "analyzed"
    /\ ingest_pc' = "exported"
    /\ export_results' = [ chromadb   |-> _export_to_chromadb_format(all_chunks),
                           custom_gpt |-> _export_to_custom_gpt_format(all_chunks) ]
    /\ UNCHANGED << raw_documents, doc_index, all_chunks, failed_documents,
                    provider_calls, chunking_log, quality_metrics >>
    /\ UNCHANGED << searchVars, serviceVars, restVars >>

\* the document of the audited run
AuditDocument ==
    process_file([ file_path |-> "docs/handbook.md", extracted |-> TRUE,
                   text |-> Join(" ", NumberedWords(120)) ])

\* a chunk entry of word_count words in all: the words of its header, then
\* numbered words
AuditEntry(header, word_count, framework) ==
    [ chunk_id |-> "c" \o ToString(word_count),
      content  |-> header \o Join(" ", NumberedWords(word_count - Len(Split(header)))),
      metadata |-> [ framework |-> framework, category |-> "Leadership",
                     section |-> "Part", language |-> "english" ] ]

AuditEntries ==
    { AuditEntry("CONTEXT: Delegation - Basics\n\n", 50, "Delegation"),
      AuditEntry("", 299, "Delegation"),
      AuditEntry("CONTEXT: Delegation - Levels\n\n", 300, "Delegation"),
      AuditEntry("FRAMEWORK: Delegation\n\n", 400, "Unknown"),
      AuditEntry("=== Slide 1 ===\n", 750, "Delegation"),
      AuditEntry("CONTEXT: Delegation - Cases\n\n", 751, "Delegation"),
      AuditEntry("CONTEXT: Delegation - All\n\n", 900, "Unknown") }

\* the lists of at most n chunk entries, no entry twice
RECURSIVE EntryLists(_)
EntryLists(n) ==
    IF n = 0 THEN { << >> }
    ELSE EntryLists(n - 1)
         \cup UNION { { Append(l, e) :
                          e \in { x \in AuditEntries : \A i \in 1..Len(l) : l[i] # x } } :
                      l \in { m \in EntryLists(n - 1) : Len(m) = n - 1 } }

\* the provider raises, or answers with a JSON object of some entries
AuditOutcomes ==
    { [ raises |-> TRUE, response |-> << >> ] }
       \cup { [ raises |-> FALSE, response |-> << Json([ chunks |-> l ]) >> ] :
                 l \in EntryLists(MaxAuditChunks) }

AuditInit ==
    /\ SearchIdle
    /\ ServiceIdle
    /\ RestIdle
    /\ ingest_pc = "chunking"
    /\ raw_documents = << AuditDocument >>
    /\ doc_index = 1
    /\ all_chunks = << >>
    /\ failed_documents = << >>
    /\ provider_calls = << >>
    /\ chunking_log = << >>
    /\ quality_metrics = NoMetrics
    /\ export_results = << >>

AuditNext ==
    \/ \E outcome \in AuditOutcomes : ChunkDocument(outcome)
    \/ FinishChunking
    \/ AnalyzeQuality
    \/ Export

(***************************************************************************)
(* The inputs of the search model.                                         *)
(***************************************************************************)
ChunkPool ==
    { [ id |-> "sbi.md_0",
        content |-> "CONTEXT: SBI\n\nSituation Behavior Impact",
        metadata |-> [ source_file |-> "sbi.md", framework |-> "SBI Framework",
                       category |-> "Communication", section |-> "Model" ],
        word_count |-> 5 ],
      [ id |-> "talks.md_0",
        content |-> "growth conversation for the cat",
        metadata |-> [ source_file |-> "talks.md", framework |-> "Unknown" ],
        word_count |-> 5 ],
      [ id |-> "cat.txt_fallback_0",
        content |-> "The cat sat",
        metadata |-> [ source_file |-> "Cat.txt" ] ],
      [ id |-> "fin.md_0",
        content |-> "budget",
        metadata |-> [ source_file |-> "fin.md", framework |-> "Finance" ],
        word_count |-> 1 ] }

\* the chunk lists of at most n chunks
RECURSIVE ChunkLists(_)
ChunkLists(n) ==
    IF n = 0 THEN { << >> }
    ELSE ChunkLists(n - 1)
         \cup { Append(l, c) : l \in { m \in ChunkLists(n - 1) : Len(m) = n - 1 },
                               c \in ChunkPool }

Queries ==
    { "", " ", "feedback", "Feedback SBI", "coaching", "cat", "the cat", "go" }

TopKs == (-1)..MaxTopK

SearchInit ==
    /\ IngestIdle
    /\ ServiceIdle
    /\ RestIdle
    /\ search_pc = "idle"
    /\ search_query = ""
    /\ search_top_k = 5
    /\ search_chunks \in ChunkLists(MaxChunks)
    /\ scored_chunks = << >>
    /\ results = << >>
    /\ score_parts = << >>

\* one call semantic_search(q, search_chunks, k), up to its return statement
Search(q, k) ==
    /\ search_pc = "idle"
    /\ search_pc' = "returned"
    /\ search_query' = q
    /\ search_top_k' = k
    /\ scored_chunks' = RankedChunks(q, search_chunks, k)
    /\ results' = ResultsOf(scored_chunks', search_chunks)
    /\ score_parts' = [p \in 1..Len(search_chunks) |-> StepScores(q, search_chunks[p])]
    /\ UNCHANGED search_chunks

\* the caller has consumed the results; the call's locals are gone
SearchReturn ==
    /\ search_pc # "idle"
    /\ search_pc' = "idle"
    /\ search_query' = ""
    /\ search_top_k' = 5
    /\ scored_chunks' = << >>
    /\ results' = << >>
    /\ score_parts' = << >>
    /\ UNCHANGED search_chunks

\* one call search_by_keywords_improved(q, k) with search_chunks in the
\* chunks file, up to its return statement
KeywordSearch(q, k) ==
    /\ search_pc = "idle"
    /\ search_pc' = "keywords_returned"
    /\ search_query' = q
    /\ search_top_k' = k
    /\ scored_chunks' = KeywordsRankedChunks(q, search_chunks, k)
    /\ results' = ResultsOf(scored_chunks', search_chunks)
    /\ score_parts' = [p \in 1..Len(search_chunks) |->
                          KeywordsStepScores(q, search_chunks[p])]
    /\ UNCHANGED search_chunks

SearchNext ==
    \/ \E q \in Queries, k \in TopKs :
          Search(q, k) /\ UNCHANGED << ingestVars, serviceVars, restVars >>
    \/ SearchReturn /\ UNCHANGED << ingestVars, serviceVars, restVars >>

(***************************************************************************)
(* The inputs of the scoring model: chunks and queries that reach every    *)
(* step of the scorer, and the corpus of scenario A.                       *)
(***************************************************************************)
ScoringChunk(id, content, source_file, framework) ==
    [ id |-> id, content |-> content,
      metadata |-> [ source_file |-> source_file, framework |-> framework ],
      word_count |-> Len(Split(content)) ]

\* the chunk that holds the complete SBI framework
SBIChunk ==
    ScoringChunk("sbi.md_0",
                 "CONTEXT: SBI\n\nDescribe the Situation, the Behavior and the Impact",
                 "sbi.md", "SBI Framework")

\* a chunk on Radical Candor: no word of scenario A's query, two terms of
\* the feedback category
CandorChunk ==
    ScoringChunk("candor.md_0", "Radical Candor: care personally, challenge directly",
                 "candor.md", "Unknown")

ScoringPool ==
    { SBIChunk,
      ScoringChunk("notes.md_0", "the situation and the behavior", "notes.md", "Unknown"),
      ScoringChunk("grow.md_0", "growth, mentoring and guidance for development",
                   "coaching_guide.md", "GROW Coaching"),
      ScoringChunk("lead.md_0", "authority and responsibility: a management discussion",
                   "lead.md", "Leadership"),
      ScoringChunk("pets.md_0", "the cat sat", "pets.md", "Unknown"),
      ScoringChunk("pets.md_1", "cat the sat", "pets.md", "Unknown"),
      ScoringChunk("go.md_0", "go for SBI in the 1:1", "go.md", "Go" ) }

\* the chunk lists of at most n different chunks of the pool
RECURSIVE ScoringLists(_)
ScoringLists(n) ==
    IF n = 0 THEN { << >> }
    ELSE ScoringLists(n - 1)
         \cup UNION { { Append(l, c) : c \in ScoringPool \ { l[i] : i \in 1..Len(l) } } :
                         l \in { m \in ScoringLists(n - 1) : Len(m) = n - 1 } }

\* nine chunks without any word of scenario A's query; the last one is
\* either on budgets too or the chunk on Radical Candor
UnrelatedChunks(last) ==
    [ i \in 1..9 |->
        IF i = 9 THEN last
        ELSE ScoringChunk("budget.md_" \o ToString(i),
                          "Budget line " \o ToString(i) \o " of the management plan",
                          "budget.md", "Finance") ]

\* seq with x put at position p
InsertAt(seq, p, x) == SubSeq(seq, 1, p - 1) \o << x >> \o SubSeq(seq, p, Len(seq))

\* the corpora of scenario A: the SBI chunk at any position among nine others
ScenarioCorpora ==
    { InsertAt(UnrelatedChunks(last), p, SBIChunk) :
         p \in 1..10,
         last \in { CandorChunk,
                    ScoringChunk("budget.md_9", "Budget line 9", "budget.md", "Finance") } }

ScenarioQuery == "giving feedback SBI situation behavior impact"

ScoringQueries ==
    { ScenarioQuery, "feedback", "Coaching feedback", "the cat", "go sbi",
      "delegation leadership communication", "budget" }

ScoringTopKs == { 1, 5 }

ScoringInit ==
    /\ IngestIdle
    /\ ServiceIdle
    /\ RestIdle
    /\ search_pc = "idle"
    /\ search_query = ""
    /\ search_top_k = 5
    /\ search_chunks \in ScoringLists(MaxScoringChunks) \cup ScenarioCorpora
    /\ scored_chunks = << >>
    /\ results = << >>
    /\ score_parts = << >>

ScoringNext ==
    \/ \E q \in ScoringQueries, k \in ScoringTopKs :
          Search(q, k) /\ UNCHANGED << ingestVars, serviceVars, restVars >>
    \/ \E q \in ScoringQueries, k \in ScoringTopKs :
          KeywordSearch(q, k) /\ UNCHANGED << ingestVars, serviceVars, restVars >>
    \/ SearchReturn /\ UNCHANGED << ingestVars, serviceVars, restVars >>

(***************************************************************************)
(* The search service of api/knowledge_service.py: load_chunks_once at     *)
(* startup, then search_knowledge for every POST /api/search.  A response  *)
(* is its HTTP status with, for 200, the fields of SearchResponse.         *)
(***************************************************************************)
\* what json.load gives for the chunks file: an object with or without 'chunks'
DataFiles ==
    { [ chunks |-> l ] : l \in ChunkLists(MaxChunks) }
       \cup { [ metadata |-> [ format |-> "chromadb" ] ], [ chunks |-> None ] }

Namespaces == { "management-knowledge", "tenant-b" }

\* the bodies of the requests: SearchRequest(query, top_k, namespace)
SearchRequests ==
    { [ query |-> q, top_k |-> k, namespace |-> n ] :
         q \in { "feedback", "the cat" }, k \in { 1, MaxTopK }, n \in Namespaces }

ServiceInit ==
    /\ SearchIdle
    /\ IngestIdle
    /\ ServiceIdle
    /\ RestIdle

\* len(chunks) raises for a value that is no list
LenRaises(chunks) == chunks = None

\* load_chunks_once() finds the chunks file and reads data from it; after
\* the two assignments it logs len(chunks), and what that raises is logged
\* and raised again
LoadChunks(data) ==
    /\ IF _knowledge_loaded
       THEN /\ UNCHANGED << _knowledge_loaded, _knowledge_base >>
            /\ load_result' = "returned"
       ELSE /\ _knowledge_base' =
                  [ n \in DOMAIN _knowledge_base \cup { "management-knowledge" } |->
                       IF n = "management-knowledge"
                       THEN Get(data, "chunks", << >>)
                       ELSE _knowledge_base[n] ]
            /\ _knowledge_loaded' = TRUE
            /\ load_result' = IF LenRaises(Get(data, "chunks", << >>))
                              THEN "raised" ELSE "returned"
    /\ UNCHANGED << search_response, ask_response, health_response >>
    /\ UNCHANGED << searchVars, ingestVars, restVars >>

\* load_chunks_once() finds no chunks file, or cannot read it: it raises and
\* the globals stay as they are
LoadFails ==
    /\ ~_knowledge_loaded
    /\ load_result' = "raised"
    /\ UNCHANGED << _knowledge_loaded, _knowledge_base, search_response,
                    ask_response, health_response >>
    /\ UNCHANGED << searchVars, ingestVars, restVars >>

HTTPException(request, status_code) ==
    [ status |-> status_code, request |-> request ]

\* the SearchResponse of a request that was served
SearchResponse(request, found) ==
    [ status        |-> 200,
      request       |-> request,
      results       |-> found,
      total_results |-> Len(found),
      query         |-> request.query,
      namespace     |-> request.namespace ]

\* if not chunks: the namespace is missing (None), or it holds None or an
\* empty list
NotChunks(base, namespace) == Get(base, namespace, << >>) \in { << >>, None }

\* search_knowledge(request): the response the client gets
search_knowledge(request) ==
    IF ~_knowledge_loaded THEN HTTPException(request, 503)
    ELSE IF NotChunks(_knowledge_base, request.namespace)
    THEN HTTPException(request, 404)
    ELSE SearchResponse(request,
            semantic_search(request.query, _knowledge_base[request.namespace],
                            request.top_k))

\* one POST /api/search
SearchKnowledge(request) ==
    /\ search_response' = search_knowledge(request)
    /\ UNCHANGED << _knowledge_loaded, _knowledge_base, load_result,
                    ask_response, health_response >>
    /\ UNCHANGED << searchVars, ingestVars, restVars >>

ServiceNext ==
    \/ \E data \in DataFiles : LoadChunks(data)
    \/ LoadFails
    \/ \E request \in SearchRequests : SearchKnowledge(request)

\* the answer to an AskRequest for which search_knowledge answered found
AskAnswer(request, found) ==
    IF found.results = << >>
    THEN [ status    |-> 200,
           request   |-> request,
           answer    |-> "I don't have specific information about this in the knowledge base.",
           sources   |-> << >>,
           question  |-> request.question,
           namespace |-> request.namespace ]
    ELSE [ status    |-> 200,
           request   |-> request,
           sources   |-> found.results,
           question  |-> request.question,
           namespace |-> request.namespace,
           note      |-> "Platform adapter should use these sources to generate AI response" ]

AskPassesStatus(request) ==
    LET found == search_knowledge([ query     |-> request.question,
                                    top_k     |-> request.top_k,
                                    namespace |-> request.namespace ])
    IN  IF found.status # 200 THEN HTTPException(request, found.status)
        ELSE AskAnswer(request, found)
\* ask_question(request) of the knowledge service: a SearchRequest is built
\* from the AskRequest and search_knowledge is awaited; every exception,
\* the HTTPException of the search included, is raised again with status 500
ask_question(request) ==
    LET found == search_knowledge([ query     |-> request.question,
                                    top_k     |-> request.top_k,
                                    namespace |-> request.namespace ])
    IN  IF found.status # 200 THEN HTTPException(request, 500)
        ELSE AskAnswer(request, found)

\* one POST /api/ask
AskQuestion(request) ==
    /\ ask_response' = ask_question(request)
    /\ UNCHANGED << _knowledge_loaded, _knowledge_base, load_result,
                    search_response, health_response >>
    /\ UNCHANGED << searchVars, ingestVars, restVars >>

\* health_check(): the chunk count of every namespace and the loaded flag;
\* what the counting raises gives the 'unhealthy' answer
health_check ==
    IF \E n \in DOMAIN _knowledge_base : LenRaises(_knowledge_base[n])
    THEN [ status |-> "unhealthy", knowledge_loaded |-> _knowledge_loaded ]
    ELSE [ status           |-> IF _knowledge_loaded THEN "healthy" ELSE "loading",
           knowledge_loaded |-> _knowledge_loaded,
           namespaces       |-> [ n \in DOMAIN _knowledge_base |->
                                    [ chunk_count |-> Len(_knowledge_base[n]) ] ] ]

\* one GET /api/health
HealthCheck ==
    /\ health_response' = health_check
    /\ UNCHANGED << _knowledge_loaded, _knowledge_base, load_result,
                    search_response, ask_response >>
    /\ UNCHANGED << searchVars, ingestVars, restVars >>

\* the chunks files of the endpoint model: a corpus, an empty corpus, a
\* file without 'chunks' and a file whose 'chunks' is null
EndpointDataFiles ==
    { [ chunks |-> << SBIChunk, CandorChunk >> ],
      [ chunks |-> << CandorChunk >> ],
      [ chunks |-> << >> ],
      [ metadata |-> [ format |-> "chromadb" ] ],
      [ chunks |-> None ] }

EndpointSearchRequests ==
    { [ query |-> q, top_k |-> 5, namespace |-> n ] :
         q \in { "feedback", "budget" }, n \in Namespaces }

\* the bodies of the requests to /api/ask: AskRequest(question, top_k, namespace)
AskRequests ==
    { [ question |-> q, top_k |-> 5, namespace |-> n ] :
         q \in { "feedback", "budget" }, n \in Namespaces }

EndpointNext ==
    \/ \E data \in EndpointDataFiles : LoadChunks(data)
    \/ LoadFails
    \/ \E request \in EndpointSearchRequests : SearchKnowledge(request)
    \/ \E request \in AskRequests : AskQuestion(request)
    \/ HealthCheck

(***************************************************************************)
(* Ingestion runs over long documents: one of 1200 words and one of 8001   *)
(* words, with answers of the provider of up to 21 chunk entries.          *)
(***************************************************************************)
\* SmartMaterialsIngestion.max_chunks_per_doc
max_chunks_per_doc == 20

LongFiles ==
    { [ file_path |-> "docs/long.md", extracted |-> TRUE,
        text |-> Join(" ", NumberedWords(3 * chunk_size)) ],
      [ file_path |-> "docs/manual.txt", extracted |-> TRUE,
        text |-> Join(" ", [i \in 1..(max_chunks_per_doc * chunk_size + 1) |-> "w"]) ] }

LongDocuments == { process_file(f) : f \in LongFiles }

\* the runs over one or both of the long documents, in either order
LongDocumentLists ==
    { << >> } \cup { << doc >> : doc \in LongDocuments }
              \cup { l \in LongDocuments \X LongDocuments : l[1] # l[2] }

\* an entry whose metadata names another file and its own chunk_index
ChunkStamped ==
    [ content  |-> "CONTEXT: Manual - Setup\n\nUnpack the device",
      metadata |-> [ framework |-> "Unknown", category |-> "General",
                     source_file |-> "other.md", source_path |-> "tmp/other.md",
                     chunk_index |-> 3 ] ]

\* entry i of a long answer
ManualEntry(i) ==
    [ content  |-> "CONTEXT: Manual - Step " \o ToString(i) \o "\n\nDo step " \o ToString(i),
      metadata |-> [ framework |-> "Unknown", category |-> "General",
                     section |-> "Step " \o ToString(i) ] ]

LongOutcomes ==
    { [ raises |-> TRUE, response |-> << >> ],
      [ raises |-> FALSE, response |-> << Text("I cannot chunk this document.") >> ],
      [ raises |-> FALSE, response |-> << Json([ chunks |-> << ChunkA, ChunkNoContent >> ]) >> ],
      [ raises |-> FALSE,
        response |-> << Json([ chunks |-> << ChunkStamped, ChunkB, ChunkNoId >> ]) >> ],
      [ raises |-> FALSE,
        response |-> << Json([ chunks |-> [i \in 1..max_chunks_per_doc |-> ManualEntry(i)] ]) >> ],
      [ raises |-> FALSE,
        response |-> << Json([ chunks |->
                                 [i \in 1..(max_chunks_per_doc + 1) |-> ManualEntry(i)] ]) >> ] }

LongInit ==
    /\ SearchIdle
    /\ ServiceIdle
    /\ RestIdle
    /\ ingest_pc = "chunking"
    /\ raw_documents \in LongDocumentLists
    /\ doc_index = 1
    /\ all_chunks = << >>
    /\ failed_documents = << >>
    /\ provider_calls = << >>
    /\ chunking_log = << >>
    /\ quality_metrics = NoMetrics
    /\ export_results = << >>

LongNext ==
    \/ \E outcome \in LongOutcomes : ChunkDocument(outcome)
    \/ FinishChunking

(***************************************************************************)
(* create_anthropic_embeddings of api/index.py (api/pinecone_rag_v2.py has *)
(* the same text).  A number is kept in thousandths.                       *)
(***************************************************************************)
\* the length of an embedding
Dimension == 1536

\* the most numbers one pass of the padding loop appends
PadSlice == 100

\* s.split(','): the pieces of s between its commas
SplitComma(s) ==
    LET IsComma(i) == Char(s, i) = ","
        commas     == SelectSeq([ i \in 1..Len(s) |-> i ], IsComma)
        start(k)   == IF k = 1 THEN 1 ELSE commas[k - 1] + 1
        end(k)     == IF k = Len(commas) + 1 THEN Len(s) ELSE commas[k] - 1
    IN  [ k \in 1..(Len(commas) + 1) |->
            IF start(k) > end(k) THEN "" ELSE SubSeq(s, start(k), end(k)) ]

\* s.strip()
Strip(s) ==
    LET inked == { i \in 1..Len(s) : ~IsSpace(Char(s, i)) }
    IN  IF inked = {} THEN ""
        ELSE SubSeq(s, CHOOSE i \in inked : \A j \in inked : i <= j,
                       CHOOSE i \in inked : \A j \in inked : i >= j)

DigitChars == { "0", "1", "2", "3", "4", "5", "6", "7", "8", "9" }

\* x.replace('-','').replace('.','').isdigit()
LooksNumeric(x) ==
    /\ \E i \in 1..Len(x) : Char(x, i) \in DigitChars
    /\ \A i \in 1..Len(x) : Char(x, i) \in DigitChars \cup { "-", "." }

\* float(x) raises ValueError for a text of digits, '-' and '.' that is no
\* number: a '-' after the first character, or more than one '.'
FloatRaises(x) ==
    \/ \E i \in 2..Len(x) : Char(x, i) = "-"
    \/ Cardinality({ i \in 1..Len(x) : Char(x, i) = "." }) > 1

DigitValue(c) ==
    CASE c = "0" -> 0 [] c = "1" -> 1 [] c = "2" -> 2 [] c = "3" -> 3 [] c = "4" -> 4
      [] c = "5" -> 5 [] c = "6" -> 6 [] c = "7" -> 7 [] c = "8" -> 8 [] c = "9" -> 9

\* int(digits), 0 for no digit
RECURSIVE IntOf(_)
IntOf(digits) ==
    IF digits = "" THEN 0
    ELSE 10 * IntOf(SubSeq(digits, 1, Len(digits) - 1)) + DigitValue(Char(digits, Len(digits)))

\* float(x) in thousandths, for a text float accepts
FloatOf(x) ==
    LET negative == Char(x, 1) = "-"
        body     == IF negative THEN SubSeq(x, 2, Len(x)) ELSE x
        dots     == { i \in 1..Len(body) : Char(body, i) = "." }
        dot      == IF dots = {} THEN Len(body) + 1 ELSE CHOOSE i \in dots : TRUE
        whole    == IF dot = 1 THEN "" ELSE SubSeq(body, 1, dot - 1)
        decimals == IF dot >= Len(body) THEN "" ELSE SubSeq(body, dot + 1, Len(body))
        three    == SubSeq(decimals \o "000", 1, 3)
        value    == 1000 * IntOf(whole) + IntOf(three)
    IN  IF negative THEN 0 - value ELSE value

\* the list comprehension over text_response.split(','): the fields that
\* look numeric, converted; raised when float() raises on one of them
ParseNumbers(text_response) ==
    LET fields == SplitComma(text_response)
        kept   == SelectSeq([ k \in 1..Len(fields) |-> Strip(fields[k]) ], LooksNumeric)
    IN  IF \E k \in 1..Len(kept) : FloatRaises(kept[k])
        THEN [ raised |-> TRUE, numbers |-> << >> ]
        ELSE [ raised |-> FALSE, numbers |-> [ k \in 1..Len(kept) |-> FloatOf(kept[k]) ] ]

\* the 16 bytes of hashlib.md5(text.encode()): a fixed function of the text
\* stands for the digest
Md5Bytes(text) == [ i \in 1..16 |-> (31 * Len(text) + 17 * i) % 256 ]

\* int(hash_val[i:i+2], 16) / 255.0 - 0.5 for each byte of the digest
HashNumbers(text) ==
    [ i \in 1..16 |-> (1000 * Md5Bytes(text)[i]) \div 255 - 500 ]

\* numbers before the padding loop; outcome is what get_anthropic_client and
\* client.messages.create do
FirstNumbers(text, outcome) ==
    IF ~outcome.client \/ outcome.raises
    THEN [ branch |-> "hash", numbers |-> HashNumbers(text) ]
    ELSE LET parsed == ParseNumbers(outcome.text_response)
         IN  IF parsed.raised
             THEN [ branch |-> "hash", numbers |-> HashNumbers(text) ]
             ELSE [ branch |-> "parsed", numbers |-> parsed.numbers ]

\* create_anthropic_embeddings(text) up to the test of its while loop
CreateEmbeddings(text, outcome) ==
    /\ embed_pc = "idle"
    /\ embed_pc' = "padding"
    /\ embed_text' = text
    /\ numbers' = FirstNumbers(text, outcome).numbers
    /\ embed_branch' = FirstNumbers(text, outcome).branch
    /\ embedding' = << >>
    /\ UNCHANGED << searchVars, ingestVars, serviceVars, repeatVars, hybridVars, uploadVars >>

\* numbers.extend(numbers[:min(100, 1536 - len(numbers))])
Extended(list) ==
    list \o SubSeq(list, 1, Min(Len(list), Min(PadSlice, Dimension - Len(list))))

\* one pass of: while len(numbers) < 1536
PadNumbers ==
    /\ embed_pc = "padding"
    /\ Len(numbers) < Dimension
    /\ numbers' = Extended(numbers)
    /\ UNCHANGED << embed_pc, embed_text, embed_branch, embedding >>
    /\ UNCHANGED << searchVars, ingestVars, serviceVars, repeatVars, hybridVars, uploadVars >>

\* return numbers[:1536]
ReturnEmbedding ==
    /\ embed_pc = "padding"
    /\ Len(numbers) >= Dimension
    /\ embed_pc' = "returned"
    /\ embedding' = SubSeq(numbers, 1, Dimension)
    /\ UNCHANGED << embed_text, numbers, embed_branch >>
    /\ UNCHANGED << searchVars, ingestVars, serviceVars, repeatVars, hybridVars, uploadVars >>

\* the caller has taken the vector
EmbeddingTaken ==
    /\ embed_pc = "returned"
    /\ embed_pc' = "idle"
    /\ embed_text' = ""
    /\ numbers' = << >>
    /\ embed_branch' = "none"
    /\ embedding' = << >>
    /\ UNCHANGED << searchVars, ingestVars, serviceVars, repeatVars, hybridVars, uploadVars >>

\* what the provider may answer to the prompt
ResponseTexts ==
    { "0.12,0.9,-1,0,0.3,0.33,-0.7,0.1,.5,0.25",
      "0.5, -0.25, 1",
      "Here you go: 0.5, 0.2",
      "1.2.3, 0.5",
      "0.5,2-1",
      "I cannot represent text as numbers.",
      "" }

EmbedOutcomes ==
    { [ client |-> FALSE, raises |-> FALSE, text_response |-> "" ],
      [ client |-> TRUE, raises |-> TRUE, text_response |-> "" ] }
      \cup { [ client |-> TRUE, raises |-> FALSE, text_response |-> t ] : t \in ResponseTexts }

EmbedTexts == { "feedback", "How do I delegate a task?" }

EmbedInit ==
    /\ SearchIdle
    /\ IngestIdle
    /\ ServiceIdle
    /\ RestIdle

EmbedNext ==
    \/ \E text \in EmbedTexts, outcome \in EmbedOutcomes : CreateEmbeddings(text, outcome)
    \/ PadNumbers
    \/ ReturnEmbedding
    \/ EmbeddingTaken

(***************************************************************************)
(* The search endpoint of api/index.py: the keyword stage over the local   *)
(* chunks file, with the Pinecone metadata scan behind it, and the vector  *)
(* stage.  A stage returns its results with the outside calls it made.     *)
(***************************************************************************)
\* the scoring loop raises KeyError on a chunk without content or metadata
ScoringRaises(chunks) ==
    \E i \in 1..Len(chunks) : ~({ "content", "metadata" } \subseteq DOMAIN chunks[i])

\* get_full_content_by_id(chunk_id) over the chunks file
get_full_content_by_id(chunk_id, file) ==
    IF ~file.found THEN "Content not available"
    ELSE IF ~file.readable THEN "Content retrieval failed"
    ELSE LET chunks == Get(file.data, "chunks", << >>)
             hits   == { i \in 1..Len(chunks) : chunks[i].id = chunk_id }
         IN  IF hits = {} THEN "Content not found for this ID"
             ELSE LET first == CHOOSE i \in hits : \A j \in hits : i <= j
                  IN  IF "content" \in DOMAIN chunks[first] THEN chunks[first].content
                      ELSE "Content retrieval failed"

\* the scoring loop of search_by_pinecone_metadata over the lowered query,
\* content, source_file and framework of one match
LoweredScore(query_lower, content, source_file, framework) ==
    LET query_words == Split(query_lower)
        WordScore(word) ==
            IF Len(word) > 2
            THEN (IF StrIn(word, source_file) THEN 50 ELSE 0)
                 + (IF StrIn(word, framework) THEN 30 ELSE 0)
                 + CountFrom(content, word, 1) * 10
            ELSE 0
        boost == IF StrIn("feedback", query_lower)
                 THEN (IF StrIn("feedback", source_file) \/ StrIn("feedback", framework)
                       THEN 100 ELSE 0)
                      + (IF \E term \in { "situation", "behavior", "impact", "sbi",
                                           "radical", "candor" } : StrIn(term, content)
                         THEN 50 ELSE 0)
                 ELSE 0
    IN  SumSeq([ i \in 1..Len(query_words) |-> WordScore(query_words[i]) ]) + boost

\* the score search_by_pinecone_metadata gives a match
MetadataScore(query, match) ==
    LoweredScore(Lower(query),
                 Lower(Get(match.metadata, "content", "")),
                 Lower(Get(match.metadata, "source_file", "")),
                 Lower(Get(match.metadata, "framework", "")))

\* the SearchResult built from a match of the index
MatchResult(match, content, score_num, score_den) ==
    [ id        |-> match.id,
      content   |-> content,
      metadata  |-> [ source_file |-> Get(match.metadata, "source_file", "Unknown"),
                      framework   |-> Get(match.metadata, "framework", "Unknown"),
                      category    |-> Get(match.metadata, "category", "General"),
                      section     |-> Get(match.metadata, "section", ""),
                      word_count  |-> Get(match.metadata, "word_count", 0) ],
      score_num |-> score_num,
      score_den |-> score_den ]

\* metadata content of the match, or the content of the chunks file
ContentOf(match, file) ==
    IF Get(match.metadata, "content", "") # "" THEN match.metadata.content
    ELSE get_full_content_by_id(match.id, file)

MetadataScanReraises(query, top_k, env) ==
    IF ~env.index \/ env.scan.raises
    THEN [ raised |-> TRUE, results |-> << >>,
           calls |-> IF env.index THEN << "metadata_query" >> ELSE << >> ]
    ELSE [ raised |-> FALSE, results |-> << >>, calls |-> << "metadata_query" >> ]
\* search_by_pinecone_metadata(query, top_k): every exception gives []
search_by_pinecone_metadata(query, top_k, env) ==
    IF ~env.index THEN [ raised |-> FALSE, results |-> << >>, calls |-> << >> ]
    ELSE IF env.scan.raises
    THEN [ raised |-> FALSE, results |-> << >>, calls |-> << "metadata_query" >> ]
    ELSE LET matches == SliceTo(env.scan.matches, Min(100, top_k * 10))
             kept    == SelectSeq([ i \in 1..Len(matches) |->
                                      [ pos |-> i, score |-> MetadataScore(query, matches[i]) ] ],
                                  LAMBDA x : x.score > 0
                                     \/ StrIn("feedback",
                                              Lower(Get(matches[x.pos].metadata,
                                                        "source_file", ""))))
             top     == SliceTo(SortByScore(kept, Len(kept)), top_k)
         IN  [ raised  |-> FALSE,
               results |-> [ i \in 1..Len(top) |->
                               LET match == matches[top[i].pos]
                               IN  IF top[i].score > 0
                                   THEN MatchResult(match, ContentOf(match, env.file),
                                                    top[i].score, 100)
                                   ELSE MatchResult(match, ContentOf(match, env.file),
                                                    match.score, 1000) ],
               calls   |-> << "metadata_query" >> ]

\* search_by_keywords_improved(query, top_k): the chunks file is looked for
\* and read; without it, and after any exception, the metadata scan answers
KeywordStage(query, top_k, env) ==
    IF ~env.file.found THEN search_by_pinecone_metadata(query, top_k, env)
    ELSE IF ~env.file.readable \/ ScoringRaises(Get(env.file.data, "chunks", << >>))
    THEN LET scan == search_by_pinecone_metadata(query, top_k, env)
         IN  [ raised |-> scan.raised, results |-> scan.results,
               calls |-> << "read_chunks_file" >> \o scan.calls ]
    ELSE [ raised  |-> FALSE,
           results |-> search_by_keywords_improved(query,
                           Get(env.file.data, "chunks", << >>), top_k),
           calls   |-> << "read_chunks_file" >> ]

\* the SearchResponse of api/index.py
IndexSearchResponse(request, found) ==
    [ status        |-> 200,
      request       |-> request,
      results       |-> found,
      total_results |-> Len(found),
      query         |-> request.query ]

\* the second half of search_knowledge: get_pinecone_index, the embedding
\* of the query and index.query; an exception gives status 500, and a call
\* of create_anthropic_embeddings that does not return gives no answer
VectorStage(request, env) ==
    IF ~env.index THEN [ response |-> HTTPException(request, 500), calls |-> << >> ]
    ELSE IF env.embedding_hangs
    THEN [ response |-> [ status |-> -1, request |-> request ],
           calls |-> << "create_embedding" >> ]
    ELSE IF env.vector.raises
    THEN [ response |-> HTTPException(request, 500),
           calls |-> << "create_embedding", "vector_query" >> ]
    ELSE LET matches == SliceTo(env.vector.matches, request.top_k)
         IN  [ response |-> IndexSearchResponse(request,
                               [ i \in 1..Len(matches) |->
                                   MatchResult(matches[i], ContentOf(matches[i], env.file),
                                               matches[i].score, 1000) ]),
               calls |-> << "create_embedding", "vector_query" >> ]

\* search_knowledge(request) of api/index.py
hybrid_search(request, env) ==
    LET keyword == KeywordStage(request.query, request.top_k, env)
        vector  == VectorStage(request, env)
    IN  IF keyword.raised
        THEN [ response |-> HTTPException(request, 500), keyword_results |-> << >>,
               keyword_raised |-> TRUE, calls |-> keyword.calls ]
        ELSE IF keyword.results # << >>
        THEN [ response |-> IndexSearchResponse(request, keyword.results),
               keyword_results |-> keyword.results,
               keyword_raised |-> FALSE, calls |-> keyword.calls ]
        ELSE [ response |-> vector.response, keyword_results |-> << >>,
               keyword_raised |-> FALSE, calls |-> keyword.calls \o vector.calls ]

\* one POST /api/search to api/index.py
HybridSearch(request, env) ==
    /\ hybrid_env = << >>
    /\ hybrid_env' = env
    /\ \E served \in { hybrid_search(request, env) } :
          /\ hybrid_calls' = served.calls
          /\ keyword_results' = served.keyword_results
          /\ hybrid_response' = served.response
    /\ UNCHANGED index_ask_response
    /\ UNCHANGED << searchVars, ingestVars, serviceVars, repeatVars, embedVars, uploadVars >>

\* the client has read the answer of api/index.py
HybridAnswered ==
    /\ hybrid_env # << >>
    /\ hybrid_env' = << >>
    /\ hybrid_calls' = << >>
    /\ keyword_results' = << >>
    /\ hybrid_response' = NoResponse
    /\ index_ask_response' = NoResponse
    /\ UNCHANGED << searchVars, ingestVars, serviceVars, repeatVars, embedVars, uploadVars >>

\* a chunk of the file without content
BrokenChunk == [ id |-> "broken.md_0" ]

\* the chunks file: missing, not JSON, or an object
LocalFiles ==
    { [ found |-> FALSE, readable |-> FALSE, data |-> << >> ],
      [ found |-> TRUE, readable |-> FALSE, data |-> << >> ],
      [ found |-> TRUE, readable |-> TRUE, data |-> [ chunks |-> << SBIChunk, CandorChunk >> ] ],
      [ found |-> TRUE, readable |-> TRUE, data |-> [ chunks |-> << SBIChunk, BrokenChunk >> ] ],
      [ found |-> TRUE, readable |-> TRUE, data |-> [ metadata |-> [ format |-> "chromadb" ] ] ] }

\* a match of index.query; its score is kept in thousandths
Match(id, score, metadata) == [ id |-> id, score |-> score, metadata |-> metadata ]

MatchSBI ==
    Match("sbi.md_0", 870,
          [ content |-> "Describe the Situation, the Behavior and the Impact",
            source_file |-> "sbi.md", framework |-> "SBI Framework" ])

MatchGuide == Match("candor.md_0", 420, [ source_file |-> "feedback_guide.md" ])

MatchBudget ==
    Match("fin.md_0", 100,
          [ content |-> "budget of the year", source_file |-> "fin.md", framework |-> "Finance" ])

\* what index.query does
QueryOutcomes ==
    { [ raises |-> TRUE, matches |-> << >> ],
      [ raises |-> FALSE, matches |-> << >> ],
      [ raises |-> FALSE, matches |-> << MatchBudget, MatchGuide, MatchSBI >> ] }

\* what a request to api/index.py meets outside the process
SearchEnvironments ==
    { [ file |-> f, index |-> i, scan |-> sc, vector |-> v, embedding_hangs |-> h ] :
         f \in LocalFiles, i \in { TRUE, FALSE }, sc \in QueryOutcomes,
         v \in QueryOutcomes, h \in { TRUE, FALSE } }

IndexSearchRequests ==
    { [ query |-> q, top_k |-> k, namespace |-> "management-knowledge" ] :
         q \in { "feedback", "budget", "holiday" }, k \in { 1, 5 } }

HybridInit ==
    /\ SearchIdle
    /\ IngestIdle
    /\ ServiceIdle
    /\ RestIdle

HybridNext ==
    \/ \E request \in IndexSearchRequests, env \in SearchEnvironments :
          HybridSearch(request, env)
    \/ HybridAnswered

(***************************************************************************)
(* POST /api/ask of api/index.py: the search, then the answer of a         *)
(* provider.  generated_by records which provider produced the text; the   *)
(* response of the program carries ai_provider only.                       *)
(***************************************************************************)
Apology ==
    "I apologize, but I'm unable to generate a response at this time. Please try again later."

\* generate_openai_response: the text of OpenAI, or the apology after any
\* exception
generate_openai_response(providers) ==
    IF providers.openai THEN [ answer |-> "answer of gpt-4", generated_by |-> "openai" ]
    ELSE [ answer |-> Apology, generated_by |-> "nobody" ]

\* generate_anthropic_response: the text of Anthropic, or after any
\* exception what generate_openai_response returns
generate_anthropic_response(providers) ==
    IF providers.anthropic
    THEN [ answer |-> "answer of claude-3-haiku", generated_by |-> "anthropic" ]
    ELSE generate_openai_response(providers)

\* request.ai_provider or os.getenv('PREFERRED_AI_PROVIDER', 'anthropic');
\* the empty string stands for a value that is not set
PreferredProvider(request, providers) ==
    IF request.ai_provider # "" THEN request.ai_provider
    ELSE IF providers.preferred # "" THEN providers.preferred
    ELSE "anthropic"

\* the AskResponse of api/index.py
IndexAskResponse(request, found, generated, used_provider) ==
    [ status       |-> 200,
      request      |-> request,
      answer       |-> generated.answer,
      generated_by |-> generated.generated_by,
      sources      |-> found.results,
      ai_provider  |-> used_provider,
      question     |-> request.question ]

\* what ask_question of api/index.py does with the answer of the search
AskAfterSearch(request, found, providers) ==
    IF found.status = -1 THEN [ status |-> -1, request |-> request ]
    ELSE IF found.status # 200 THEN HTTPException(request, 500)
    ELSE IF found.results = << >> THEN HTTPException(request, 500)
    ELSE IF PreferredProvider(request, providers) = "anthropic"
    THEN IndexAskResponse(request, found, generate_anthropic_response(providers),
                          "anthropic")
    ELSE IndexAskResponse(request, found, generate_openai_response(providers), "openai")

\* one POST /api/ask to api/index.py
IndexAsk(request, env, providers) ==
    /\ hybrid_env = << >>
    /\ hybrid_env' = env
    /\ \E served \in { hybrid_search([ query     |-> request.question,
                                        top_k     |-> request.top_k,
                                        namespace |-> request.namespace ], env) } :
          /\ hybrid_calls' = served.calls
          /\ keyword_results' = served.keyword_results
          /\ hybrid_response' = served.response
          /\ index_ask_response' = AskAfterSearch(request, served.response, providers)
    /\ UNCHANGED << searchVars, ingestVars, serviceVars, repeatVars, embedVars, uploadVars >>

\* which providers answer, and PREFERRED_AI_PROVIDER
AnswerProviders ==
    { [ anthropic |-> a, openai |-> o, preferred |-> p ] :
         a \in { TRUE, FALSE }, o \in { TRUE, FALSE }, p \in { "", "openai" } }

IndexAskRequests ==
    { [ question |-> q, top_k |-> 5, ai_provider |-> p, namespace |-> "management-knowledge" ] :
         q \in { "feedback", "holiday" }, p \in { "", "anthropic", "openai" } }

\* the environments of the requests to /api/ask: the metadata scan fails
\* and the embedding of the query returns
AskEnvironments ==
    { env \in SearchEnvironments :
         /\ env.scan.raises
         /\ ~env.embedding_hangs
         /\ "metadata" \notin DOMAIN env.file.data
         /\ \A i \in 1..Len(Get(env.file.data, "chunks", << >>)) :
               env.file.data.chunks[i] # BrokenChunk }

\* both services answer questions
AskNext ==
    \/ \E data \in EndpointDataFiles : LoadChunks(data)
    \/ LoadFails
    \/ \E request \in AskRequests : AskQuestion(request)
    \/ \E request \in IndexAskRequests, env \in AskEnvironments,
          providers \in AnswerProviders : IndexAsk(request, env, providers)
    \/ HybridAnswered

(***************************************************************************)
(* api/pinecone_rag.py: ensure_knowledge_loaded uploads the chunks of the  *)
(* chunks file to the index in batches, on the first request that finds    *)
(* _knowledge_loaded false.  Chunks are numbered 1..rag_chunks.            *)
(***************************************************************************)
rag_batch_size == 100

\* the number of the batch that holds chunk i, batches counted from 1
BatchOf(i) == (i - 1) \div rag_batch_size + 1

\* the first batch of the upload loop that raises, 0 when none does: the
\* batch of the chunk whose embedding fails, or the batch whose upsert fails
FirstFailingBatch(chunks, env) ==
    LET byEmbedding == IF env.embedding_fails_at \in 1..chunks
                       THEN { BatchOf(env.embedding_fails_at) } ELSE {}
        byUpsert    == IF env.upsert_fails_at \in 1..BatchOf(chunks)
                       THEN { env.upsert_fails_at } ELSE {}
        failing     == byEmbedding \cup byUpsert
    IN  IF failing = {} THEN 0
        ELSE CHOOSE b \in failing : \A c \in failing : b <= c

\* the chunks of the batches before batch b
UploadedBefore(chunks, b) == 1..Min(chunks, (b - 1) * rag_batch_size)

\* ensure_knowledge_loaded(): the new value of _knowledge_loaded, the
\* vectors of the index afterwards, and whether HTTPException(500) is raised
ensure_knowledge_loaded(loaded, vectors, chunks, env) ==
    IF loaded THEN [ loaded |-> TRUE, vectors |-> vectors, raised |-> FALSE ]
    ELSE IF ~env.index THEN [ loaded |-> FALSE, vectors |-> vectors, raised |-> TRUE ]
    ELSE IF Cardinality(vectors) > 0
    THEN [ loaded |-> TRUE, vectors |-> vectors, raised |-> FALSE ]
    ELSE IF ~env.file_found \/ chunks = 0
    THEN [ loaded |-> FALSE, vectors |-> vectors, raised |-> TRUE ]
    ELSE LET failing == FirstFailingBatch(chunks, env)
         IN  IF failing = 0
             THEN [ loaded |-> TRUE, vectors |-> vectors \cup (1..chunks),
                    raised |-> FALSE ]
             ELSE [ loaded |-> FALSE,
                    vectors |-> vectors \cup UploadedBefore(chunks, failing),
                    raised |-> TRUE ]

\* one POST /api/search to api/pinecone_rag.py: ensure_knowledge_loaded,
\* the embedding of the query and index.query; every exception gives 500
RagSearch(env) ==
    LET ensured == ensure_knowledge_loaded(rag_knowledge_loaded, rag_vectors,
                                           rag_chunks, env)
    IN  /\ rag_knowledge_loaded' = ensured.loaded
        /\ rag_vectors' = ensured.vectors
        /\ rag_env' = env
        /\ rag_response' = IF ensured.raised \/ ~env.query_embedding \/ ~env.index
                           THEN [ status |-> 500 ]
                           ELSE [ status |-> 200,
                                  searched |-> Cardinality(ensured.vectors) ]
        /\ UNCHANGED rag_chunks
        /\ UNCHANGED << searchVars, ingestVars, serviceVars, repeatVars, embedVars,
                        hybridVars, rebuildVars >>

\* the sizes of the chunks file
RagChunkCounts == { 0, 50, 250 }

\* what a request to api/pinecone_rag.py meets: the index and the file are
\* there or not, the embedding of one chunk or the upsert of one batch
\* fails (0: none does), the embedding of the query is created or not
RagEnvironments ==
    { [ index |-> i, file_found |-> f, embedding_fails_at |-> e, upsert_fails_at |-> u,
        query_embedding |-> q ] :
         i \in { TRUE, FALSE }, f \in { TRUE, FALSE }, e \in { 0, 1, 150, 250 },
         u \in { 0, 1, 3 }, q \in { TRUE, FALSE } }

RagInit ==
    /\ SearchIdle
    /\ IngestIdle
    /\ ServiceIdle
    /\ RepeatIdle
    /\ EmbedIdle
    /\ HybridIdle
    /\ RebuildIdle
    /\ rag_knowledge_loaded = FALSE
    /\ rag_vectors = {}
    /\ rag_chunks \in RagChunkCounts
    /\ rag_env = << >>
    /\ rag_response = NoResponse

RagNext == \E env \in RagEnvironments : RagSearch(env)

(***************************************************************************)
(* rebuild_embeddings.py: rebuild_knowledge_base clears the namespace and  *)
(* uploads one vector per chunk, in batches.  Chunks are numbered          *)
(* 1..rebuild_chunks; rebuild_i is the number of the chunk the loop is at. *)
(***************************************************************************)
rebuild_batch_size == 50

\* rebuild_knowledge_base() up to the loop: the file is read and the
\* namespace is cleared; a missing file and a failed clearing return False
StartRebuild(chunks, faults) ==
    /\ rebuild_pc = "idle"
    /\ rebuild_chunks' = chunks
    /\ rebuild_faults' = faults
    /\ rebuild_i' = 1
    /\ vectors_to_upload' = << >>
    /\ total_processed' = 0
    /\ embedded' = {}
    /\ IF faults.file_missing \/ faults.clear_fails
       THEN /\ rebuild_pc' = "returned"
            /\ rebuild_result' = "False"
            /\ UNCHANGED upserted
       ELSE /\ rebuild_pc' = "loop"
            /\ rebuild_result' = "not_called"
            /\ upserted' = {}
    /\ UNCHANGED << searchVars, ingestVars, serviceVars, repeatVars, embedVars,
                    hybridVars, ragVars >>

\* the batch is uploaded after chunk i: it is full, or i is the last chunk
UploadsAfter(pending, i, chunks) ==
    Len(pending) >= rebuild_batch_size \/ i = chunks

\* one iteration of the loop over the chunks: the embedding, the vector
\* appended and counted, the upload of the batch; an exception of the
\* embedding or of the upsert is printed and the loop continues
ProcessChunk ==
    /\ rebuild_pc = "loop"
    /\ rebuild_i <= rebuild_chunks
    /\ rebuild_i' = rebuild_i + 1
    /\ IF rebuild_i \in rebuild_faults.embedding
       THEN UNCHANGED << vectors_to_upload, total_processed, embedded, upserted >>
       ELSE LET pending == Append(vectors_to_upload, rebuild_i)
            IN  /\ total_processed' = total_processed + 1
                /\ embedded' = embedded \cup { rebuild_i }
                /\ IF ~UploadsAfter(pending, rebuild_i, rebuild_chunks)
                      \/ rebuild_i \in rebuild_faults.upsert
                   THEN /\ vectors_to_upload' = pending
                        /\ UNCHANGED upserted
                   ELSE /\ vectors_to_upload' = << >>
                        /\ upserted' = upserted \cup { pending[k] : k \in 1..Len(pending) }
    /\ UNCHANGED << rebuild_pc, rebuild_chunks, rebuild_faults, rebuild_result >>
    /\ UNCHANGED << searchVars, ingestVars, serviceVars, repeatVars, embedVars,
                    hybridVars, ragVars >>

\* the loop is over: the counts are printed and True is returned
FinishRebuild ==
    /\ rebuild_pc = "loop"
    /\ rebuild_i > rebuild_chunks
    /\ rebuild_pc' = "returned"
    /\ rebuild_result' = "True"
    /\ UNCHANGED << rebuild_chunks, rebuild_faults, rebuild_i, vectors_to_upload,
                    total_processed, embedded, upserted >>
    /\ UNCHANGED << searchVars, ingestVars, serviceVars, repeatVars, embedVars,
                    hybridVars, ragVars >>

\* the script has ended; the index keeps its vectors
RebuildEnded ==
    /\ rebuild_pc = "returned"
    /\ rebuild_pc' = "idle"
    /\ rebuild_chunks' = 0
    /\ rebuild_faults' = << >>
    /\ rebuild_i' = 0
    /\ vectors_to_upload' = << >>
    /\ total_processed' = 0
    /\ embedded' = {}
    /\ rebuild_result' = "not_called"
    /\ UNCHANGED upserted
    /\ UNCHANGED << searchVars, ingestVars, serviceVars, repeatVars, embedVars,
                    hybridVars, ragVars >>

\* the sizes of the chunks file
RebuildChunkCounts == { 0, 3, 50, 52 }

\* what fails in a run over n chunks: the file, the clearing, the
\* embedding of the first or the last chunk, the upsert after chunk 50 or
\* after the last chunk
RebuildFaults(n) ==
    { [ file_missing |-> f, clear_fails |-> c, embedding |-> e \cap (1..n),
        upsert |-> u \cap (1..n) ] :
         f \in { FALSE }, c \in { FALSE }, e \in { {}, { 1 }, { n }, { 2, n } },
         u \in { {}, { rebuild_batch_size }, { n } } }
    \cup { [ file_missing |-> TRUE, clear_fails |-> FALSE, embedding |-> {}, upsert |-> {} ],
           [ file_missing |-> FALSE, clear_fails |-> TRUE, embedding |-> {}, upsert |-> {} ] }

RebuildInit ==
    /\ SearchIdle
    /\ IngestIdle
    /\ ServiceIdle
    /\ RestIdle

RebuildNext ==
    \/ \E n \in RebuildChunkCounts : \E faults \in RebuildFaults(n) : StartRebuild(n, faults)
    \/ ProcessChunk
    \/ FinishRebuild
    \/ RebuildEnded

(***************************************************************************)
(* Repeated calls of semantic_search on one corpus, with the globals of    *)
(* the service changing between them.                                      *)
(***************************************************************************)
MaxCalls == 2

MaxRepeatChunks == 2

ChunksLeftScored(query, chunks, top_k) ==
    SelectSeq(chunks, LAMBDA c : ChunkScore(query, c) > 0)
\* the chunk list after semantic_search(query, chunks, top_k): the function
\* reads chunks and each chunk, and appends and sorts only its own lists
ChunksAfterSearch(query, chunks, top_k) == chunks

\* the record of one call
CallRecord(query, chunks, top_k) ==
    [ query        |-> query,
      chunks       |-> chunks,
      top_k        |-> top_k,
      chunks_after |-> ChunksAfterSearch(query, chunks, top_k),
      returned     |-> semantic_search(query, chunks, top_k),
      loaded       |-> _knowledge_loaded ]

\* one complete call semantic_search(q, search_chunks, k)
Invoke(q, k) ==
    /\ search_pc = "idle"
    /\ Len(call_log) < MaxCalls
    /\ call_log' = Append(call_log, CallRecord(q, search_chunks, k))
    /\ search_chunks' = ChunksAfterSearch(q, search_chunks, k)
    /\ UNCHANGED << search_pc, search_query, search_top_k, scored_chunks, results,
                    score_parts >>
    /\ UNCHANGED << ingestVars, serviceVars, embedVars, hybridVars, uploadVars >>

RepeatCorpora ==
    { l \in ChunkLists(MaxRepeatChunks) :
         \A i \in 1..Len(l) : l[i].id # "fin.md_0" }

RepeatInit ==
    /\ IngestIdle
    /\ ServiceIdle
    /\ RestIdle
    /\ search_pc = "idle"
    /\ search_query = ""
    /\ search_top_k = 5
    /\ search_chunks \in RepeatCorpora
    /\ scored_chunks = << >>
    /\ results = << >>
    /\ score_parts = << >>

RepeatNext ==
    \/ \E q \in { "feedback", "the cat" }, k \in { 1, MaxTopK } : Invoke(q, k)
    \/ LoadChunks([ chunks |-> search_chunks ])

vars == << searchVars, ingestVars, serviceVars, restVars >>

\* calls of create_anthropic_embeddings, each pass of the loop taken in turn
SpecEmbed ==
    EmbedInit /\ [][EmbedNext]_vars /\ WF_vars(PadNumbers) /\ WF_vars(ReturnEmbedding)

\* requests to the search endpoint of api/index.py
SpecRebuild == RebuildInit /\ [][RebuildNext]_vars

SpecRag == RagInit /\ [][RagNext]_vars

SpecAsk == HybridInit /\ [][AskNext]_vars

SpecHybrid == HybridInit /\ [][HybridNext]_vars

\* the knowledge service with all its endpoints
SpecEndpoints == ServiceInit /\ [][EndpointNext]_vars

\* ingestion runs over long documents
SpecLongDocs == LongInit /\ [][LongNext]_vars

\* repeated calls of the scorer
SpecRepeat == RepeatInit /\ [][RepeatNext]_vars

\* both scorers over the chunks and queries of the scoring model
SpecScoring == ScoringInit /\ [][ScoringNext]_vars

\* the search service from its start on
SpecService == ServiceInit /\ [][ServiceNext]_vars

\* the search service answering requests
SpecSearch == SearchInit /\ [][SearchNext]_vars

\* one ingestion run
SpecIngest == IngestInit /\ [][IngestNext]_vars

\* one ingestion run through the audit and the export
SpecAudit == AuditInit /\ [][AuditNext]_vars

(***************************************************************************)
(* Properties of the chunking engine.                                      *)
(***************************************************************************)
\* the document of a log entry
DocOf(e) == raw_documents[e.doc]

\* the AI-assisted path was taken for the entry's document and failed: the
\* provider raised, or the try block of _parse_chunking_response raised (no
\* JSON found, JSON that does not parse, an entry without content or metadata)
AIPathFailed(e) ==
    /\ DocOf(e).processing_status = "success"
    /\ DocOf(e).word_count >= 100
    /\ \/ e.outcome.raises
       \/ ParseResponse(e.outcome.response, DocOf(e)).raised

\* the entry's chunks come from the mechanical fallback
FromFallback(e) == AIPathFailed(e) /\ ~e.raised

\* a chunk's content with the header of part n of the file removed
WithoutHeader(chunk, filename, n) ==
    LET header == "CONTEXT: " \o filename \o " - Part " \o ToString(n)
    IN  IF StartsWith(chunk.content, header)
        THEN SubSeq(chunk.content, Len(header) + 1, Len(chunk.content))
        ELSE chunk.content

\* the words of the chunks lo..hi of a fallback entry, headers removed, in order
RECURSIVE BodyWords(_, _, _)
BodyWords(e, lo, hi) ==
    IF lo > hi THEN << >>
    ELSE Split(WithoutHeader(e.chunks[lo], DocOf(e).filename, lo)) \o BodyWords(e, lo + 1, hi)

\* the entry the loop added last
LastEntry == chunking_log[Len(chunking_log)]

\* C4: the chunks of the mechanical fallback, with the header
\* 'CONTEXT: <filename> - Part <n>' removed and read in order, give back the
\* document's whitespace-split words exactly, and chunk n holds
\* min(400, remaining) words.
C4_FallbackRoundTrip ==
    (chunking_log # << >> /\ FromFallback(LastEntry)) =>
        LET e     == LastEntry
            words == Split(DocOf(e).content)
        IN  /\ BodyWords(e, 1, Len(e.chunks)) = words
            /\ \A n \in 1..Len(e.chunks) :
                  Len(Split(WithoutHeader(e.chunks[n], DocOf(e).filename, n)))
                     = Min(400, Len(words) - 400 * (n - 1))

\* C4 witness: a fallback run that gave two full chunks and a shorter last one
C4_Witness ==
    /\ chunking_log # << >>
    /\ FromFallback(LastEntry)
    /\ Len(LastEntry.chunks) = 3
    /\ LastEntry.chunks[2].word_count = 400
    /\ LastEntry.chunks[3].word_count < 400

\* C5: every emitted chunk has word_count = number of words of its content
\* and char_count = number of characters of its content.
C5_CountsMatchContent ==
    \A i \in 1..Len(all_chunks) :
        /\ all_chunks[i].word_count = Len(Split(all_chunks[i].content))
        /\ all_chunks[i].char_count = Len(all_chunks[i].content)

\* C6: after a run no two chunks share an id, and no two chunks of the same
\* source_file share a chunk_index.
C6_UniqueIds ==
    ingest_pc = "chunked" =>
        \A i, j \in 1..Len(all_chunks) :
            i # j =>
               /\ all_chunks[i].id # all_chunks[j].id
               /\ (all_chunks[i].metadata.source_file = all_chunks[j].metadata.source_file
                      => all_chunks[i].metadata.chunk_index
                            # all_chunks[j].metadata.chunk_index)

\* the window segmentation of a document that _fallback_chunking can split
FallbackThrows(doc) == ~doc.content_is_str

\* C7: when the AI-assisted path fails for a document of at least 100 words,
\* _intelligent_chunking returns the fallback chunks of the document and
\* raises nothing; an exception reaches the loop only if the fallback throws.
\* (Stated of the iteration that just ended: the log only grows, so every
\* entry is the last one in the state its iteration produced.)
C7_FailureFallsBack ==
    chunking_log # << >> =>
        LET e == LastEntry
        IN  /\ (AIPathFailed(e) /\ ~FallbackThrows(DocOf(e))) =>
                  /\ ~e.raised
                  /\ e.chunks = _fallback_chunking(DocOf(e)).chunks
                  /\ \A n \in 1..Len(e.chunks) :
                        e.chunks[n].metadata.chunk_type = "fallback"
            /\ e.raised => (AIPathFailed(e) /\ FallbackThrows(DocOf(e)))

\* C7 witness: the provider raised for one document, a chunk entry lacked
\* 'content' for another, and both got their fallback chunks
C7_Witness ==
    /\ \E k \in 1..Len(chunking_log) :
          /\ chunking_log[k].outcome.raises
          /\ FromFallback(chunking_log[k])
          /\ chunking_log[k].chunks # << >>
    /\ \E k \in 1..Len(chunking_log) :
          /\ ~chunking_log[k].outcome.raises
          /\ JsonMatch(chunking_log[k].outcome.response).found
          /\ ~JsonLoads(JsonMatch(chunking_log[k].outcome.response).group).raised
          /\ FromFallback(chunking_log[k])
          /\ chunking_log[k].chunks # << >>

\* the response holds exactly one well-formed JSON object whose chunk
\* entries are complete, with commentary before or after it
OneJsonObjectInProse(response) ==
    /\ Len(response) >= 2
    /\ Cardinality({ i \in 1..Len(response) : response[i].kind = "json" }) = 1
    /\ LET obj == response[CHOOSE i \in 1..Len(response) : response[i].kind = "json"].value
       IN  \A i \in 1..Len(Get(obj, "chunks", << >>)) :
               {"content", "metadata"} \subseteq DOMAIN obj.chunks[i]

\* the entries of the one JSON object of the response
EntriesOf(response) ==
    Get(response[CHOOSE i \in 1..Len(response) : response[i].kind = "json"].value,
        "chunks", << >>)

\* C8: when the response embeds one well-formed JSON object in commentary,
\* the chunks are built from that object, whatever the commentary holds.
C8_JsonFoundInProse ==
    \A k \in 1..Len(chunking_log) :
        LET e == chunking_log[k]
        IN  (/\ DocOf(e).processing_status = "success"
             /\ DocOf(e).word_count >= 100
             /\ ~e.outcome.raises
             /\ OneJsonObjectInProse(e.outcome.response)) =>
               /\ ~e.raised
               /\ Len(e.chunks) = Len(EntriesOf(e.outcome.response))
               /\ \A n \in 1..Len(e.chunks) :
                     e.chunks[n].content = EntriesOf(e.outcome.response)[n].content

\* an iteration that failed: extraction had failed, or the chunking raised
Failing(k) ==
    \/ raw_documents[k].processing_status # "success"
    \/ chunking_log[k].raised

\* the chunks the iterations lo..hi returned, failing ones left out
RECURSIVE KeptChunks(_, _)
KeptChunks(lo, hi) ==
    IF lo > hi THEN << >>
    ELSE (IF Failing(lo) THEN << >> ELSE chunking_log[lo].chunks) \o KeptChunks(lo + 1, hi)

\* C9: a failing document never aborts the batch: the loop goes through every
\* document in order, a failing document is in failed_documents exactly once
\* and has no chunk in the corpus, the chunks of all other documents are kept.
C9_BatchSurvivesFailures ==
    /\ doc_index = Len(chunking_log) + 1
    /\ doc_index <= Len(raw_documents) + 1
    /\ ingest_pc = "chunked" => Len(chunking_log) = Len(raw_documents)
    /\ all_chunks = KeptChunks(1, Len(chunking_log))
    /\ \A k \in 1..Len(chunking_log) :
          /\ chunking_log[k].doc = k
          /\ Cardinality({ f \in 1..Len(failed_documents) :
                 failed_documents[f].file_path = raw_documents[k].file_path })
                = (IF Failing(k) THEN 1 ELSE 0)
          /\ Failing(k) =>
                \A c \in 1..Len(all_chunks) :
                    all_chunks[c].metadata.source_path # raw_documents[k].file_path
    /\ Len(failed_documents) <= Len(chunking_log)

\* C9 witness: a batch that ended, in which the first document failed and
\* the second one gave chunks
C9_Witness ==
    /\ ingest_pc = "chunked"
    /\ Len(chunking_log) >= 2
    /\ Failing(1)
    /\ ~Failing(2)
    /\ chunking_log[2].chunks # << >>
    /\ all_chunks = chunking_log[2].chunks
    /\ Len(failed_documents) = 1

\* C10: an extracted document of fewer than 100 words gives no chunk, is not
\* sent to the provider and is not in failed_documents; a document of exactly
\* 100 words is not skipped: it is sent to the provider.
C10_ShortDocumentsSkipped ==
    \A k \in 1..Len(chunking_log) :
        LET doc == raw_documents[k]
            sent == \E c \in 1..Len(provider_calls) : provider_calls[c] = k
        IN  doc.processing_status = "success" =>
               /\ doc.word_count < 100 =>
                     /\ chunking_log[k].chunks = << >>
                     /\ ~chunking_log[k].raised
                     /\ ~sent
                     /\ \A f \in 1..Len(failed_documents) :
                           failed_documents[f].file_path # doc.file_path
                     /\ \A c \in 1..Len(all_chunks) :
                           all_chunks[c].metadata.source_path # doc.file_path
               /\ doc.word_count = 100 => sent

\* C10 witness: a run over a document of 99 words and one of 100 words
C10_Witness ==
    /\ ingest_pc = "chunked"
    /\ \E k \in 1..Len(chunking_log) :
          /\ raw_documents[k].processing_status = "success"
          /\ raw_documents[k].word_count = 99
    /\ \E k \in 1..Len(chunking_log) :
          /\ raw_documents[k].processing_status = "success"
          /\ raw_documents[k].word_count = 100
          /\ chunking_log[k].chunks # << >>

\* the document of iteration k was extracted, has at least 100 words and is
\* not recorded as failed
ChunkedDocument(k) ==
    /\ raw_documents[k].processing_status = "success"
    /\ raw_documents[k].word_count >= 100
    /\ ~chunking_log[k].raised

\* C11: an extracted document of at least 100 words that is not recorded as
\* failed gets at least one chunk, whatever the provider answers.
C11_AtLeastOneChunk ==
    \A k \in 1..Len(chunking_log) :
        ChunkedDocument(k) => Len(chunking_log[k].chunks) >= 1

\* the chunk entries of the JSON object the response of entry e parses to
ParsedEntries(e) ==
    Get(JsonLoads(JsonMatch(e.outcome.response).group).value, "chunks", << >>)

\* the chunks of all_chunks that come from the file of document k
CorpusChunksOf(k) ==
    SelectSeq(all_chunks,
              LAMBDA c : c.metadata.source_path = raw_documents[k].file_path)

\* C12: what a document gives to the corpus is all-or-nothing and from one
\* path: nothing when it is recorded as failed, all fallback chunks when the
\* AI-assisted path failed, otherwise one chunk per entry of the AI response;
\* a chunk built before an error in the same document is never emitted.
\* (Stated of the iteration that just ended, as C7 is.)
C12_AllOrNothing ==
    (ingest_pc = "chunking" /\ chunking_log # << >>) =>
        LET k   == Len(chunking_log)
            e   == LastEntry
            doc == DocOf(e)
        IN  /\ CorpusChunksOf(k) = e.chunks
            /\ Failing(k) => e.chunks = << >>
            /\ (~Failing(k) /\ AIPathFailed(e)) =>
                   /\ Len(e.chunks) = (Len(Split(doc.content)) + 399) \div 400
                   /\ \A n \in 1..Len(e.chunks) :
                         /\ e.chunks[n].metadata.chunk_type = "fallback"
                         /\ e.chunks[n].id = doc.filename \o "_fallback_" \o ToString(n - 1)
            /\ (~Failing(k) /\ ~AIPathFailed(e) /\ doc.word_count >= 100) =>
                   /\ Len(e.chunks) = Len(ParsedEntries(e))
                   /\ \A n \in 1..Len(e.chunks) :
                         /\ e.chunks[n].content = ParsedEntries(e)[n].content
                         /\ e.chunks[n].metadata.chunk_index = n - 1

\* C12 witness: the response held a complete entry followed by one without
\* 'content'; the document got its fallback chunks and nothing else
C12_Witness ==
    /\ ingest_pc = "chunking"
    /\ chunking_log # << >>
    /\ ~LastEntry.outcome.raises
    /\ Len(ParsedEntries(LastEntry)) = 2
    /\ "content" \in DOMAIN ParsedEntries(LastEntry)[1]
    /\ "content" \notin DOMAIN ParsedEntries(LastEntry)[2]
    /\ ~Failing(Len(chunking_log))
    /\ LastEntry.chunks # << >>
    /\ \A n \in 1..Len(LastEntry.chunks) :
          LastEntry.chunks[n].metadata.chunk_type = "fallback"

(***************************************************************************)
(* Properties of semantic_search.                                          *)
(***************************************************************************)
\* results[i] is the chunk at position scored_chunks[i].pos with that score
ResultsMatchRanking ==
    /\ Len(results) = Len(scored_chunks)
    /\ \A i \in 1..Len(results) :
          /\ scored_chunks[i].pos \in 1..Len(search_chunks)
          /\ results[i].id = search_chunks[scored_chunks[i].pos].id
          /\ results[i].score_num = scored_chunks[i].score

\* C1: for top_k >= 1 semantic_search returns at most top_k results, in
\* descending order of score, and two results of equal score keep the order
\* they have in the input chunk list (the ranking is stable).
C1_StableTopK ==
    (search_pc = "returned" /\ search_top_k >= 1) =>
        /\ ResultsMatchRanking
        /\ Len(results) <= search_top_k
        /\ \A i, j \in 1..Len(results) :
              i < j =>
                 /\ results[i].score_num >= results[j].score_num
                 /\ (results[i].score_num = results[j].score_num
                        => scored_chunks[i].pos < scored_chunks[j].pos)

\* C1 witness: a search whose ranking was cut to top_k and that returns two
\* chunks of equal score
C1_Witness ==
    /\ search_pc = "returned"
    /\ search_top_k >= 1
    /\ Len(results) = search_top_k
    /\ Len(ScoreChunks(search_query, search_chunks, 1)) > search_top_k
    /\ \E i, j \in 1..Len(results) :
          i < j /\ results[i].score_num = results[j].score_num

\* the query is empty or holds whitespace only
BlankQuery(q) == Split(q) = << >>

\* C2: an empty or whitespace-only query against a non-empty chunk list
\* returns an empty result list.
C2_BlankQueryNoResults ==
    (search_pc = "returned" /\ BlankQuery(search_query) /\ search_chunks # << >>)
        => results = << >>

\* the chunk shares a query token with its content, source_file or framework
SharesToken(q, chunk) ==
    LET words == Split(Lower(q))
    IN  \E i \in 1..Len(words) :
           \/ StrIn(words[i], Lower(chunk.content))
           \/ StrIn(words[i], Lower(Get(chunk.metadata, "source_file", "")))
           \/ StrIn(words[i], Lower(Get(chunk.metadata, "framework", "")))

\* neither the query as a phrase nor any of its tokens occurs in the chunk
NoTextualMatch(q, chunk) ==
    /\ ~StrIn(Lower(q), Lower(chunk.content))
    /\ ~SharesToken(q, chunk)

\* the content holds a term that steps 4 or 5 reward for a category the query names
HasBoostTerm(q, chunk) ==
    LET ql == Lower(q)
        content == Lower(chunk.content)
    IN  \/ \E c \in 1..Len(semantic_categories) :
              /\ StrIn(semantic_categories[c].category, ql)
              /\ \E k \in 1..Len(semantic_categories[c].keywords) :
                    StrIn(semantic_categories[c].keywords[k], content)
        \/ /\ StrIn("coaching", ql)
           /\ \E term \in {"development", "growth", "conversation"} :
                 StrIn(term, content)

\* the positions of the input list that were returned
ReturnedPositions == { scored_chunks[i].pos : i \in 1..Len(scored_chunks) }

AllScoresPositive == \A i \in 1..Len(results) : results[i].score_num > 0

\* C3 as stated: a chunk without the query as a substring and without a shared
\* query token is never returned, and every returned score is positive.
C3_NoMatchNeverReturned ==
    search_pc = "returned" =>
        /\ \A p \in 1..Len(search_chunks) :
              NoTextualMatch(search_query, search_chunks[p]) => p \notin ReturnedPositions
        /\ AllScoresPositive

\* C3 amended: a chunk without the query as a substring, without a shared
\* query token and without a term rewarded by the category or framework steps
\* for this query is never returned; every returned score is positive.
C3_ZeroScoreNeverReturned ==
    search_pc = "returned" =>
        /\ ResultsMatchRanking
        /\ \A p \in 1..Len(search_chunks) :
              (NoTextualMatch(search_query, search_chunks[p])
                  /\ ~HasBoostTerm(search_query, search_chunks[p]))
                 => p \notin ReturnedPositions
        /\ AllScoresPositive

\* C3 witness: fewer results than top_k although a chunk without any match
\* was in the list
C3_Witness ==
    /\ search_pc = "returned"
    /\ Len(results) >= 1
    /\ search_top_k > Len(results)
    /\ \E p \in 1..Len(search_chunks) :
          /\ NoTextualMatch(search_query, search_chunks[p])
          /\ ~HasBoostTerm(search_query, search_chunks[p])

(***************************************************************************)
(* Properties of the search service.                                       *)
(***************************************************************************)
\* the last request was served with the knowledge base loaded and asked for
\* a namespace that is missing or holds no chunk
EmptyCorpusQuery ==
    /\ search_response # NoResponse
    /\ search_response.status # 503
    /\ NotChunks(_knowledge_base, search_response.request.namespace)

\* C13: a search against an empty or missing chunk collection is no error:
\* the request is answered with an empty result list.
C13_EmptyCorpusNoError ==
    EmptyCorpusQuery =>
        /\ search_response.status = 200
        /\ search_response.results = << >>

(***************************************************************************)
(* Properties of the quality audit.                                        *)
(***************************************************************************)
\* the audit has run over a corpus that is not empty
Audited == ingest_pc \in { "analyzed", "exported" } /\ all_chunks # << >>

\* the audit's report holds a flag of this kind for the chunk
Flagged(kind, chunk) ==
    \E f \in 1..Len(quality_metrics.quality_flags) :
        StartsWith(quality_metrics.quality_flags[f],
                   kind \o ": " \o chunk.id \o " (" \o ToString(chunk.word_count) \o " ")

\* the number of flags of this kind in the report
FlagCount(kind) ==
    Cardinality({ f \in 1..Len(quality_metrics.quality_flags) :
                    StartsWith(quality_metrics.quality_flags[f], kind \o ": ") })

\* C14: the audit flags a chunk as 'Short chunk' exactly when word_count < 300
\* and as 'Long chunk' exactly when word_count > 750; no chunk gets both.
C14_ShortAndLongFlags ==
    Audited =>
        /\ \A i \in 1..Len(all_chunks) :
              /\ Flagged("Short chunk", all_chunks[i]) <=> all_chunks[i].word_count < 300
              /\ Flagged("Long chunk", all_chunks[i]) <=> all_chunks[i].word_count > 750
              /\ ~(Flagged("Short chunk", all_chunks[i])
                     /\ Flagged("Long chunk", all_chunks[i]))
        /\ FlagCount("Short chunk")
              = Cardinality({ i \in 1..Len(all_chunks) : all_chunks[i].word_count < 300 })
        /\ FlagCount("Long chunk")
              = Cardinality({ i \in 1..Len(all_chunks) : all_chunks[i].word_count > 750 })

\* C14 witness: an audited corpus of chunks of 50, 400 and 900 words
C14_Witness ==
    /\ Audited
    /\ Len(all_chunks) = 3
    /\ all_chunks[1].word_count = 50
    /\ all_chunks[2].word_count = 400
    /\ all_chunks[3].word_count = 900
    /\ FlagCount("Short chunk") = 1
    /\ FlagCount("Long chunk") = 1
    /\ ~Flagged("Short chunk", all_chunks[2])
    /\ ~Flagged("Long chunk", all_chunks[2])

\* C15: the audit is advisory only: after it, and after the export, the
\* corpus is the chunk list the loop produced, and both output formats hold
\* exactly these chunks, in order, however many are flagged.
C15_AuditIsAdvisory ==
    /\ ingest_pc \in { "chunked", "analyzed", "exported" } =>
          all_chunks = KeptChunks(1, Len(chunking_log))
    /\ ingest_pc = "exported" =>
          /\ export_results.chromadb.written.chunks = KeptChunks(1, Len(chunking_log))
          /\ export_results.chromadb.chunks_exported = Len(all_chunks)
          /\ export_results.custom_gpt.files_exported = Len(all_chunks)
          /\ \A i \in 1..Len(all_chunks) :
                LET file == export_results.custom_gpt.written[i]
                    body == all_chunks[i].content
                IN  /\ Len(file) > Len(body)
                    /\ SubSeq(file, Len(file) - Len(body) + 1, Len(file)) = body

\* C15 witness: an exported run in which every chunk of the corpus was flagged
C15_Witness ==
    /\ ingest_pc = "exported"
    /\ Len(all_chunks) >= 2
    /\ Len(quality_metrics.quality_flags) >= Len(all_chunks)
    /\ \A i \in 1..Len(all_chunks) : ChunkIssues(all_chunks[i]) # << >>
    /\ export_results.chromadb.chunks_exported = Len(all_chunks)

(***************************************************************************)
(* Properties of the scoring steps.                                        *)
(***************************************************************************)
\* the lower-cased content of the chunk at position p
ContentAt(p) == Lower(search_chunks[p].content)

\* the tokens of the query of the call
QueryTokens == Split(Lower(search_query))

\* the content at position p holds all three SBI terms
HoldsCompleteSBI(p) ==
    /\ StrIn("situation", ContentAt(p))
    /\ StrIn("behavior", ContentAt(p))
    /\ StrIn("impact", ContentAt(p))

\* C16: in semantic_search and in search_by_keywords_improved alike, when the
\* query contains 'feedback' a chunk gets the completion bonus of 100 if and
\* only if its content holds all of situation, behavior and impact; with one
\* or two of them it gets no completion bonus.
C16_CompletionBonusNeedsAllThree ==
    (search_pc \in { "returned", "keywords_returned" }
        /\ StrIn("feedback", Lower(search_query))) =>
        \A p \in 1..Len(search_chunks) :
            score_parts[p].completion = (IF HoldsCompleteSBI(p) THEN 100 ELSE 0)

\* the number of places of text at which word starts
Occurrences(text, word) ==
    Cardinality({ i \in 1..(Len(text) - Len(word) + 1) :
                    SubSeq(text, i, i + Len(word) - 1) = word })

\* the positions of the query tokens of more than 2 characters that occur in text
LongTokensIn(text) ==
    { i \in 1..Len(QueryTokens) :
         Len(QueryTokens[i]) > 2 /\ StrIn(QueryTokens[i], text) }

\* C17: in semantic_search every query token of more than 2 characters adds
\* 50 if it occurs in the lower-cased source_file, 30 if it occurs in the
\* lower-cased framework, and occurrences x length x 5 for the content;
\* tokens of 1 or 2 characters add nothing in these two steps.
C17_FieldAndFrequencySteps ==
    search_pc = "returned" =>
        \A p \in 1..Len(search_chunks) :
            /\ score_parts[p].field =
                  50 * Cardinality(LongTokensIn(
                          Lower(Get(search_chunks[p].metadata, "source_file", ""))))
                  + 30 * Cardinality(LongTokensIn(
                          Lower(Get(search_chunks[p].metadata, "framework", ""))))
            /\ score_parts[p].frequency =
                  SumSeq([i \in 1..Len(QueryTokens) |->
                     IF Len(QueryTokens[i]) > 2
                     THEN Occurrences(ContentAt(p), QueryTokens[i]) * Len(QueryTokens[i]) * 5
                     ELSE 0])

\* C17 witness: the query has a token of 2 characters that occurs in the
\* content and in the source_file of a chunk whose field step added nothing,
\* while a longer token scored in its content and in both fields of another chunk
C17_Witness ==
    /\ search_pc = "returned"
    /\ \E p \in 1..Len(search_chunks), i \in 1..Len(QueryTokens) :
          /\ Len(QueryTokens[i]) = 2
          /\ StrIn(QueryTokens[i], ContentAt(p))
          /\ StrIn(QueryTokens[i], Lower(search_chunks[p].metadata.source_file))
          /\ score_parts[p].field = 0
          /\ score_parts[p].frequency = 15
    /\ \E p \in 1..Len(search_chunks) : score_parts[p].field = 80

\* the pairs (category, associated term) with the category named in the
\* query and the term present in the content at position p
CategoryHits(p) ==
    { ck \in UNION { { << c, k >> : k \in 1..Len(semantic_categories[c].keywords) } :
                      c \in 1..Len(semantic_categories) } :
         /\ StrIn(semantic_categories[ck[1]].category, Lower(search_query))
         /\ StrIn(semantic_categories[ck[1]].keywords[ck[2]], ContentAt(p)) }

\* C18: in semantic_search the score of a chunk grows by 20 for every
\* associated term, present in its content, of each domain category whose
\* name occurs in the lower-cased query; other categories add nothing.
C18_CategoryStep ==
    search_pc = "returned" =>
        \A p \in 1..Len(search_chunks) :
            score_parts[p].category = 20 * Cardinality(CategoryHits(p))

\* C18 witness: a query naming two categories, a chunk with a term of each,
\* and a chunk that holds terms of a category the query does not name
C18_Witness ==
    /\ search_pc = "returned"
    /\ StrIn("feedback", Lower(search_query))
    /\ StrIn("coaching", Lower(search_query))
    /\ \E p \in 1..Len(search_chunks) :
          /\ StrIn("sbi", ContentAt(p))
          /\ StrIn("1:1", ContentAt(p))
          /\ score_parts[p].category = 40
    /\ \E p \in 1..Len(search_chunks) :
          /\ StrIn("management", ContentAt(p))
          /\ score_parts[p].category = 0

\* the place of the chunk of position p in the returned ranking, 0 if it is
\* not returned
RankOf(p) ==
    IF \E i \in 1..Len(scored_chunks) : scored_chunks[i].pos = p
    THEN CHOOSE i \in 1..Len(scored_chunks) : scored_chunks[i].pos = p
    ELSE 0

\* the chunks at a and b differ only in that a holds the query as a phrase
DifferOnlyInPhrase(a, b) ==
    /\ StrIn(Lower(search_query), ContentAt(a))
    /\ ~StrIn(Lower(search_query), ContentAt(b))
    /\ score_parts[a].field = score_parts[b].field
    /\ score_parts[a].frequency = score_parts[b].frequency
    /\ score_parts[a].category = score_parts[b].category
    /\ score_parts[a].completion = score_parts[b].completion
    /\ score_parts[a].coaching = score_parts[b].coaching

\* C19: of two chunks that differ only in that one holds the lower-cased
\* query as a substring of its lower-cased content, semantic_search ranks
\* the one that holds it before the other.
C19_ExactMatchRanksFirst ==
    (search_pc = "returned" /\ search_top_k >= 1) =>
        \A a, b \in 1..Len(search_chunks) :
            DifferOnlyInPhrase(a, b) =>
               /\ RankOf(b) # 0 => RankOf(a) # 0
               /\ RankOf(b) # 0 => RankOf(a) < RankOf(b)
               /\ RankOf(a) = 0 => Len(scored_chunks) = search_top_k

\* C19 witness: the chunk with the phrase comes after the other one in the
\* corpus, both are returned, and it is ranked first
C19_Witness ==
    /\ search_pc = "returned"
    /\ Len(search_chunks) = 2
    /\ DifferOnlyInPhrase(2, 1)
    /\ RankOf(2) = 1
    /\ RankOf(1) = 2

\* the corpus is the one of scenario A: one chunk with the three SBI terms
\* and framework 'SBI Framework', and nine chunks that satisfy Unrelated
ScenarioA(Unrelated(_)) ==
    /\ search_query = ScenarioQuery
    /\ Len(search_chunks) = 10
    /\ \E s \in 1..10 :
          /\ HoldsCompleteSBI(s)
          /\ Get(search_chunks[s].metadata, "framework", "") = "SBI Framework"
          /\ \A p \in (1..10) \ { s } : Unrelated(search_chunks[p])

\* the SBI chunk is the only result, with a raw score of at least 200
OnlySBIReturned ==
    /\ Len(results) = 1
    /\ HoldsCompleteSBI(scored_chunks[1].pos)
    /\ results[1].score_num >= 200
    /\ results[1].score_num >= 2 * results[1].score_den

SharesNoTerm(chunk) == ~SharesToken(ScenarioQuery, chunk)

SharesNoTermNorBoost(chunk) ==
    ~SharesToken(ScenarioQuery, chunk) /\ ~HasBoostTerm(ScenarioQuery, chunk)

\* C20 as stated: in scenario A, with nine chunks that share no term with the
\* query, the SBI chunk is ranked first with a raw score of at least 200 and
\* none of the nine is returned.
C20_ScenarioAAsStated ==
    (search_pc = "returned" /\ ScenarioA(SharesNoTerm)) => OnlySBIReturned

\* C20 amended: the same, for nine chunks that share no term with the query
\* and hold no associated term of the feedback category.
C20_ScenarioA ==
    (search_pc = "returned" /\ ScenarioA(SharesNoTermNorBoost)) => OnlySBIReturned

\* C20 witness: scenario A with the SBI chunk last in the corpus and room
\* for five results
C20_Witness ==
    /\ search_pc = "returned"
    /\ ScenarioA(SharesNoTermNorBoost)
    /\ HoldsCompleteSBI(10)
    /\ search_top_k = 5
    /\ Len(results) = 1

(***************************************************************************)
(* Properties of repeated calls.                                           *)
(***************************************************************************)
\* the ids and scores of a returned list, in order
IdsAndScores(returned) ==
    [ i \in 1..Len(returned) |->
        << returned[i].id, returned[i].score_num, returned[i].score_den >> ]

Stamped(e, k) ==
    /\ e.chunks[k].metadata.chunk_index = k - 1
    /\ e.chunks[k].metadata.source_file = DocOf(e).filename
    /\ e.chunks[k].metadata.source_path = DocOf(e).file_path

\* C22: on the AI-assisted and on the fallback path, the k-th chunk (0-based)
\* returned for a document has chunk_index k, the document's filename as
\* source_file and its path as source_path; a document of 1200 words gives
\* exactly 3 fallback chunks, with chunk_index 0, 1, 2 and 400 words each.
C22_ChunksCarryPositionAndSource ==
    chunking_log # << >> =>
        /\ \A k \in 1..Len(LastEntry.chunks) : Stamped(LastEntry, k)
        /\ (DocOf(LastEntry).word_count = 3 * chunk_size /\ FromFallback(LastEntry)) =>
               /\ Len(LastEntry.chunks) = 3
               /\ \A k \in 1..3 : LastEntry.chunks[k].word_count = chunk_size

\* the entries of the provider's answer recorded in e
AnswerEntries(e) ==
    Get(JsonLoads(JsonMatch(e.outcome.response).group).value, "chunks", << >>)

\* C22 witness: the document of 1200 words went through the fallback, and
\* then the provider answered with entries whose metadata name another file
\* and another chunk_index, which became the chunks of the second document
C22_Witness ==
    /\ Len(chunking_log) = 2
    /\ DocOf(chunking_log[1]).word_count = 3 * chunk_size
    /\ FromFallback(chunking_log[1])
    /\ Len(chunking_log[1].chunks) = 3
    /\ ~AIPathFailed(chunking_log[2])
    /\ Len(chunking_log[2].chunks) = 3
    /\ AnswerEntries(chunking_log[2])[1].metadata.source_file = "other.md"
    /\ AnswerEntries(chunking_log[2])[2].metadata.chunk_index = 7

\* C24: no document gives more chunks than max_chunks_per_doc, neither on
\* the AI-assisted path nor on the fallback path.
C24_AtMostMaxChunksPerDoc ==
    chunking_log # << >> => Len(LastEntry.chunks) <= max_chunks_per_doc

(***************************************************************************)
(* Properties of the corpus of the knowledge service.                      *)
(***************************************************************************)
\* the step is the end of a call of load_chunks_once that raised
FailedLoadStep ==
    /\ load_result' = "raised"
    /\ UNCHANGED << search_response, ask_response, health_response >>

\* C23: the corpus is loaded at most once and read-only afterwards: once
\* _knowledge_loaded is true no call changes _knowledge_base; a search is
\* served from the corpus only when _knowledge_loaded is true and answered
\* with 503 otherwise; _knowledge_loaded is true only with the chunk list
\* published under its namespace; and a load that fails leaves
\* _knowledge_loaded false and _knowledge_base unchanged.
C23_LoadedOnceReadOnly ==
    [][ /\ _knowledge_loaded => (_knowledge_loaded' /\ UNCHANGED _knowledge_base)
        /\ search_response' # search_response =>
               (search_response'.status = 503 <=> ~_knowledge_loaded)
        /\ _knowledge_loaded' => "management-knowledge" \in DOMAIN _knowledge_base'
        /\ FailedLoadStep => (~_knowledge_loaded' /\ UNCHANGED _knowledge_base)
      ]_vars

(***************************************************************************)
(* Properties of create_anthropic_embeddings.                              *)
(***************************************************************************)
\* C26: create_anthropic_embeddings always terminates and returns a vector
\* of exactly 1536 numbers, whatever the text and whatever the provider
\* does: an error, fewer than 1536 numbers, or no number at all.
C26_AlwaysReturnsFullVector ==
    (embed_pc = "padding") ~> (embed_pc = "returned" /\ Len(embedding) = Dimension)

\* the calls of the vector stage of search_knowledge
VectorCalls == { "create_embedding", "vector_query" }

\* the calls of the keyword stage of search_knowledge
KeywordCalls == { "read_chunks_file", "metadata_query" }

\* C25: search_knowledge of api/index.py runs the keyword stage first; when
\* it finds results they are the answer, and no query embedding is created
\* and no vector query issued; the vector stage runs only after an empty
\* keyword result, and a failure of the keyword stage (unreadable file,
\* failing metadata scan) ends as an empty list, never as an exception
C25_KeywordFirstVectorSecond ==
    hybrid_response.status # 0 =>
        /\ keyword_results # << >> =>
              /\ hybrid_response.status = 200
              /\ hybrid_response.results = keyword_results
              /\ \A i \in 1..Len(hybrid_calls) : hybrid_calls[i] \notin VectorCalls
        /\ (\E i \in 1..Len(hybrid_calls) : hybrid_calls[i] \in VectorCalls) =>
              keyword_results = << >>
        /\ \A i, j \in 1..Len(hybrid_calls) :
              (hybrid_calls[i] \in KeywordCalls /\ hybrid_calls[j] \in VectorCalls) => i < j
        /\ (keyword_results = << >> /\ hybrid_env.index) =>
              hybrid_calls[Len(hybrid_calls)] \in VectorCalls

\* the chunks file could not be read, the metadata scan found matches, and
\* they were returned without a call of the vector stage
C25_Witness ==
    /\ hybrid_response.status = 200
    /\ hybrid_env.file.found /\ ~hybrid_env.file.readable
    /\ hybrid_calls = << "read_chunks_file", "metadata_query" >>
    /\ keyword_results # << >>
    /\ hybrid_response.results = keyword_results

\* the metadata scan failed behind a missing file and the vector stage
\* answered
C25_WitnessVector ==
    /\ hybrid_response.status = 200
    /\ ~hybrid_env.file.found /\ hybrid_env.scan.raises
    /\ hybrid_calls = << "metadata_query", "create_embedding", "vector_query" >>
    /\ keyword_results = << >>
    /\ hybrid_response.results # << >>

\* the responses that are errors
IsError(response) == response.status \notin { 0, 200 }

\* C29: every error response that leaves ask_question has status 500, in
\* api/knowledge_service.py (where the inner search answers 404 and 503)
\* and in api/index.py (where ask_question raises 404 on empty results)
C29_AskErrorsAre500 ==
    /\ IsError(ask_response) => ask_response.status = 500
    /\ IsError(index_ask_response) => index_ask_response.status = 500
    /\ (ask_response.status # 0
         /\ search_knowledge([ query     |-> ask_response.request.question,
                               top_k     |-> ask_response.request.top_k,
                               namespace |-> ask_response.request.namespace ]).status
                \in { 404, 503 })
          => ask_response.status = 500
    /\ (index_ask_response.status # 0 /\ hybrid_response.status = 200
         /\ hybrid_response.results = << >>)
          => index_ask_response.status = 500

\* the knowledge service answered 500 to a question whose inner search
\* answers 404, and api/index.py answered 500 to a question whose search
\* found nothing
C29_Witness ==
    /\ ask_response.status = 500
    /\ _knowledge_loaded
    /\ search_knowledge([ query     |-> ask_response.request.question,
                          top_k     |-> ask_response.request.top_k,
                          namespace |-> ask_response.request.namespace ]).status = 404
    /\ index_ask_response.status = 500
    /\ hybrid_response.status = 200
    /\ hybrid_response.results = << >>

\* C30: ai_provider of a successful response of /api/ask of api/index.py
\* names the provider that generated the answer
C30_ProviderNamesTheGenerator ==
    index_ask_response.status = 200 =>
        index_ask_response.ai_provider = index_ask_response.generated_by

\* C27: _knowledge_loaded of api/pinecone_rag.py is true only when the
\* index holds a vector for every chunk of the chunks file, also after
\* requests whose load failed part-way
C27_LoadedOnlyWhenComplete ==
    rag_knowledge_loaded => (1..rag_chunks) \subseteq rag_vectors

\* C28: when rebuild_knowledge_base returns True, every chunk whose
\* embedding was created and counted in total_processed has been upserted,
\* and no prepared vector is left in the pending batch, whichever chunks
\* failed to embed
C28_ProcessedChunksAreUpserted ==
    (rebuild_pc = "returned" /\ rebuild_result = "True"
     /\ rebuild_faults.upsert = {}) =>
        /\ total_processed = Cardinality(embedded)
        /\ embedded \subseteq upserted
        /\ vectors_to_upload = << >>
====
